---- MODULE Spec2Model ----
(***************************************************************************)
(* TaskMaster backend (src/backend/server.py): the request handlers of the *)
(* REST API over the users, categories and tasks tables, one SQL statement *)
(* per step, run by concurrent requests that each hold one connection in   *)
(* its own transaction (psycopg2: autocommit off, READ COMMITTED).         *)
(***************************************************************************)
EXTENDS Integers, Sequences, FiniteSets, TLC

\* ------------------------------------------------------------------ bounds
\* Rows the uuid4 generator may hand out per table, and the clock's range.
MaxUsers == 2
MaxCats  == 8
MaxTasks == 2
MaxTime  == 3

\* ------------------------------------------------------- program constants
\* create_token: 86400 * 30 seconds; one clock tick of the model is 10 days.
TokenLifetime == 3

\* HTTP status codes the handlers use.
HTTP_200 == 200
HTTP_201 == 201
HTTP_204 == 204
HTTP_400 == 400
HTTP_401 == 401
HTTP_404 == 404
HTTP_500 == 500
\* The status FastAPI gives a request body its pydantic model rejects; the
\* application installs no handler of its own for that error.
HTTP_422 == 422

\* ------------------------------------------------------------------ values
None   == 0      \* SQL NULL / Python None in an id column
BadId  == -1     \* a path or body id that uuid.UUID() rejects
\* The empty string given as an id: falsy for `if task_in.category_id:`,
\* not a UUID for uuid.UUID.
EmptyId == -2
NoEmail == "<null>"
NoIcon  == "<null>"
NoText  == "<null>"   \* NULL in a text column, null for a string field
NullInt == -3         \* NULL in an integer column, null for an integer field

Reqs      == {"r1", "r2"}          \* requests in flight at once
UserIds   == 1..MaxUsers
CatIds    == 1..MaxCats
TaskIds   == 1..MaxTasks
Usernames == {"alice", "bob"}
Passwords == {"pw123", "other"}
Emails    == {NoEmail, "a@x.io"}

GlobalCat == 1   \* the seeded category with user_id NULL

\* register: default_categories
default_categories ==
    << [name |-> "Genel",   color |-> "#808080", icon |-> "list"],
       [name |-> "Is",      color |-> "#007BFF", icon |-> "briefcase"],
       [name |-> "Kisisel", color |-> "#28A745", icon |-> "person"] >>

\* pool.SimpleConnectionPool(1, 20, dsn=DATABASE_URL)
minconn == 1
maxconn == 20

\* Worker threads that serve requests at the same time.
MaxThreads == 22

VARIABLES
    now,          \* datetime.now(timezone.utc), in ticks
    users,        \* committed rows of table users
    categories,   \* committed rows of table categories
    tasks,        \* committed rows of table tasks
    ever,         \* ids uuid4 has produced for rows that were committed
    pc,           \* per request: where its handler stands
    req,          \* per request: operation, bearer token, path and body
    uid,          \* per request: user id the auth dependency resolved
    local,        \* per request: the handler's local variables
    tx,           \* per request: writes of its open transaction
    resp,         \* per request: the HTTP response
    effect,       \* per request: committed rows its commits created or touched
    connection_pool  \* the pool: idle and checked-out connections, and the
                     \* worker threads that are inside getconn or hold one

\* The pool once the application has started: minconn connections opened,
\* the test connection taken and put back, no request being served.
\* idle is len(_pool), used is len(_used); connecting, holding and failing
\* count the worker threads inside _connect, serving a request with a
\* connection, and unwinding from a failed getconn.
PoolAtStart ==
    [idle |-> minconn, used |-> 0, connecting |-> 0, holding |-> 0, failing |-> 0]

db   == <<users, categories, tasks, ever>>
vars == <<now, users, categories, tasks, ever, pc, req, uid, local, tx, resp, effect,
          connection_pool>>

NoBody  == [none |-> TRUE]
NoResp  == [status |-> 0, detail |-> "", body |-> NoBody]
NoReq   == [op |-> "none"]
NoLocal == [none |-> TRUE]

\* ------------------------------------------------------------ pure helpers
\* bcrypt.hashpw / bcrypt.checkpw: a salted hash that only the same password
\* verifies against.
hash_password(password) == [alg |-> "bcrypt", of |-> password]

verify_password(password, hashed) == hashed.alg = "bcrypt" /\ hashed.of = password

\* jwt.encode of {"user_id", "exp"} under JWT_SECRET.
create_token(user_id, t) == [user_id |-> user_id, sig |-> TRUE, exp |-> t + TokenLifetime]

Min(S) == CHOOSE x \in S : \A y \in S : x <= y

SeqToSet(s) == {s[i] : i \in DOMAIN s}

\* ---------------------------------------------------------------- storage
\* The tables as one record, the form Apply works on.
DB == [users |-> users, categories |-> categories, tasks |-> tasks, ever |-> ever]

PendingOf(r) == SeqToSet(tx[r])

OthersPending(r) == UNION {PendingOf(q) : q \in Reqs \ {r}}

AllPending == UNION {PendingOf(q) : q \in Reqs}

\* uuid.uuid4(): an id no committed row ever had and no open transaction holds.
FreshIds(tbl, all) ==
    all \ (ever[tbl] \cup {o.id : o \in {p \in AllPending : p.tbl = tbl}})

\* tasks.category_id REFERENCES categories ON DELETE SET NULL: the tasks after
\* category `id` is deleted.
OnDeleteSetNull(taskRows, id) ==
    {IF t.category_id = id THEN [t EXCEPT !.category_id = None] ELSE t : t \in taskRows}

\* One write of a transaction becoming visible at COMMIT.
ApplyOp(op, S) ==
    CASE op.k = "insert" /\ op.tbl = "users" ->
            [S EXCEPT !.users = @ \cup {op.row},
                      !.ever = [@ EXCEPT !.users = @ \cup {op.id}]]
      [] op.k = "insert" /\ op.tbl = "categories" ->
            [S EXCEPT !.categories = @ \cup {op.row},
                      !.ever = [@ EXCEPT !.categories = @ \cup {op.id}]]
      [] op.k = "insert" /\ op.tbl = "tasks" ->
            [S EXCEPT !.tasks = @ \cup {op.row},
                      !.ever = [@ EXCEPT !.tasks = @ \cup {op.id}]]
      [] op.k = "update" /\ op.tbl = "categories" ->
            [S EXCEPT !.categories = {c \in @ : c.id # op.id} \cup {op.row}]
      [] op.k = "update" /\ op.tbl = "tasks" ->
            [S EXCEPT !.tasks = {t \in @ : t.id # op.id} \cup {op.row}]
      [] op.k = "delete" /\ op.tbl = "categories" ->
            [S EXCEPT !.categories = {c \in @ : c.id # op.id},
                      !.tasks = OnDeleteSetNull(@, op.id)]
      [] op.k = "delete" /\ op.tbl = "tasks" ->
            [S EXCEPT !.tasks = {t \in @ : t.id # op.id}]

RECURSIVE Apply(_, _)
Apply(ops, S) == IF ops = <<>> THEN S ELSE Apply(Tail(ops), ApplyOp(Head(ops), S))

\* The committed rows one write creates, changes or removes, each with the
\* owner the row has (a new row: the owner it is given; a user row: itself).
Touched(op, S) ==
    CASE op.k = "insert" /\ op.tbl = "users" ->
            {[tbl |-> op.tbl, id |-> op.id, owner |-> op.row.id, how |-> op.k]}
      [] op.k = "insert" /\ op.tbl # "users" ->
            {[tbl |-> op.tbl, id |-> op.id, owner |-> op.row.user_id, how |-> op.k]}
      [] op.k \in {"update", "delete"} ->
            {[tbl |-> op.tbl, id |-> x.id, owner |-> x.user_id, how |-> op.k] :
                x \in {y \in S[op.tbl] : y.id = op.id}}
            \cup {[tbl |-> "tasks", id |-> t.id, owner |-> t.user_id, how |-> "update"] :
                    t \in {x \in S.tasks : op.k = "delete" /\ op.tbl = "categories"
                                              /\ x.category_id = op.id}}

RECURSIVE TouchedAll(_, _)
TouchedAll(ops, S) ==
    IF ops = <<>> THEN {}
    ELSE Touched(Head(ops), S) \cup TouchedAll(Tail(ops), ApplyOp(Head(ops), S))

\* What a statement of a handler leads to: a response that ends the request,
\* or the label of the handler's next statement.
Fails(status, detail) ==
    [status |-> status, detail |-> detail, body |-> NoBody, next |-> "done"]

Returns(status, body) ==
    [status |-> status, detail |-> "", body |-> body, next |-> "done"]

GoesOn(label) == [status |-> 0, detail |-> "", body |-> NoBody, next |-> label]

\* --------------------------------------------------------- request framing
\* raise HTTPException: the response leaves the handler, the transaction is
\* rolled back (by the handler, else by the pool's putconn).
Raise(r, status, detail) ==
    /\ pc' = [pc EXCEPT ![r] = "done"]
    /\ resp' = [resp EXCEPT ![r] = [status |-> status, detail |-> detail, body |-> NoBody]]
    /\ tx' = [tx EXCEPT ![r] = <<>>]
    /\ local' = [local EXCEPT ![r] = NoLocal]
    /\ UNCHANGED <<now, connection_pool, db, req, uid, effect>>

\* return: the response leaves the handler; nothing is written.
Return(r, status, body) ==
    /\ pc' = [pc EXCEPT ![r] = "done"]
    /\ resp' = [resp EXCEPT ![r] = [status |-> status, detail |-> "", body |-> body]]
    /\ tx' = [tx EXCEPT ![r] = <<>>]
    /\ UNCHANGED <<now, connection_pool, db, req, uid, local, effect>>

\* A statement that writes nothing, and what it leads to.
Step(r, o) ==
    /\ pc' = [pc EXCEPT ![r] = o.next]
    /\ resp' = [resp EXCEPT ![r] =
          IF o.next = "done"
          THEN [status |-> o.status, detail |-> o.detail, body |-> o.body]
          ELSE @]
    /\ tx' = [tx EXCEPT ![r] = IF o.next = "done" THEN <<>> ELSE @]
    /\ local' = [local EXCEPT ![r] = NoLocal]
    /\ UNCHANGED <<now, connection_pool, db, req, uid, effect>>

\* The handler goes on to its next statement.
Goto(r, label, loc) ==
    /\ pc' = [pc EXCEPT ![r] = label]
    /\ local' = [local EXCEPT ![r] = loc]
    /\ UNCHANGED <<now, connection_pool, db, req, uid, tx, resp, effect>>

\* cur.execute of a write that succeeds: it joins the open transaction.
Execute(r, op, label, loc) ==
    /\ pc' = [pc EXCEPT ![r] = label]
    /\ local' = [local EXCEPT ![r] = loc]
    /\ tx' = [tx EXCEPT ![r] = Append(@, op)]
    /\ UNCHANGED <<now, connection_pool, db, req, uid, resp, effect>>

\* conn.commit(): the transaction's writes become the committed rows.
CommitDB(r) ==
    /\ users' = Apply(tx[r], DB).users
    /\ categories' = Apply(tx[r], DB).categories
    /\ tasks' = Apply(tx[r], DB).tasks
    /\ ever' = Apply(tx[r], DB).ever
    /\ effect' = [effect EXCEPT ![r] = @ \cup TouchedAll(tx[r], DB)]
    /\ tx' = [tx EXCEPT ![r] = <<>>]

\* ------------------------------------------------------------- Auth Gate
\* jwt.decode: the signature, then the exp claim against the clock.
TokenDecodes(token, t) == token.sig /\ t < token.exp

\* Variant: the payload's user_id trusted without the SELECT on users.
ResolveToken_unchecked_user(token, t, userRows) ==
    IF TokenDecodes(token, t) /\ token.user_id # None
    THEN token.user_id
    ELSE None

\* get_current_user_id: the user id of the token, or None for every 401.
ResolveToken(token, t, userRows) ==
    IF /\ TokenDecodes(token, t)
       /\ token.user_id # None
       /\ \E u \in userRows : u.id = token.user_id
    THEN token.user_id
    ELSE None

AuthDetail(token, t) ==
    IF ~token.sig THEN "Gecersiz token"
    ELSE IF ~(t < token.exp) THEN "Token suresi dolmus"
    ELSE IF token.user_id = None THEN "Gecersiz token payload"
    ELSE "Kullanici bulunamadi veya yetkilendirilmedi"

\* The first statement of each protected handler.
FirstLabel(op) ==
    CASE op = "get_me" -> "get_me"
      [] op = "create_category" -> "create_category_insert"
      [] op = "update_category" -> "update_category_check"
      [] op = "delete_category" -> "delete_category_check"
      [] op = "create_task" -> "create_task_validate"
      [] op = "get_task" -> "get_task"
      [] op = "get_tasks" -> "get_tasks"
      [] op = "update_task" -> "update_task_check"
      [] op = "delete_task" -> "delete_task_check"
      [] op = "ai_chat" -> "ai_chat_validate"

get_current_user_id(r) ==
    /\ pc[r] = "auth"
    /\ LET id == ResolveToken(req[r].token, now, users) IN
       IF id = None
       THEN Raise(r, HTTP_401, AuthDetail(req[r].token, now))
       ELSE /\ pc' = [pc EXCEPT ![r] = FirstLabel(req[r].op)]
            /\ uid' = [uid EXCEPT ![r] = id]
            /\ UNCHANGED <<now, connection_pool, db, req, local, tx, resp, effect>>

\* ---------------------------------------------------------------- register
UserRow(id, a) ==
    [id |-> id, username |-> a.username, email |-> a.email,
     password_hash |-> hash_password(a.password)]

UserResponse(u) == [id |-> u.id, username |-> u.username, email |-> u.email]

\* users.username UNIQUE, users.email UNIQUE (NULLs apart): a row in the way
\* of inserting `a`.
UsersUnique(a, userRows) ==
    \E u \in userRows :
        \/ u.username = a.username
        \/ (a.email # NoEmail /\ u.email = a.email)

\* Variant: the pre-check on the username alone.
UserTaken_username_only(a, userRows) ==
    \E u \in userRows : u.username = a.username

\* SELECT id FROM users WHERE username = %s OR email = %s (email = NULL never
\* matches).
UserTaken(a, userRows) ==
    \E u \in userRows :
        \/ u.username = a.username
        \/ (a.email # NoEmail /\ u.email = a.email)

register_check(r) ==
    /\ pc[r] = "register_check"
    /\ Step(r, IF UserTaken(req[r].arg, users)
               THEN Fails(HTTP_400, "Kullanici adi veya e-posta zaten kullaniliyor")
               ELSE GoesOn("register_insert_user"))

\* Variant: the connection in autocommit mode, the INSERT INTO users visible
\* and durable at once.
register_insert_user_autocommit(r) ==
    /\ pc[r] = "register_insert_user"
    /\ IF UsersUnique(req[r].arg, users)
       THEN Raise(r, HTTP_500, "Kayit hatasi")
       ELSE /\ FreshIds("users", UserIds) # {}
            /\ LET id == Min(FreshIds("users", UserIds))
                   op == [tbl |-> "users", id |-> id, k |-> "insert",
                          row |-> UserRow(id, req[r].arg)]
               IN /\ users' = users \cup {op.row}
                  /\ ever' = [ever EXCEPT !.users = @ \cup {id}]
                  /\ effect' = [effect EXCEPT ![r] = @ \cup Touched(op, DB)]
                  /\ pc' = [pc EXCEPT ![r] = "register_insert_category"]
                  /\ local' = [local EXCEPT ![r] = [user_id |-> id, i |-> 1]]
                  /\ UNCHANGED <<now, connection_pool, categories, tasks, req, uid, tx, resp>>

\* INSERT INTO users: waits for an open transaction that inserted the same
\* username or email, and fails on a committed one.
register_insert_user(r) ==
    /\ pc[r] = "register_insert_user"
    /\ ~\E p \in OthersPending(r) : p.tbl = "users" /\ UsersUnique(req[r].arg, {p.row})
    /\ IF UsersUnique(req[r].arg, users)
       THEN Raise(r, HTTP_500, "Kayit hatasi")
       ELSE /\ FreshIds("users", UserIds) # {}
            /\ LET id == Min(FreshIds("users", UserIds)) IN
               Execute(r, [tbl |-> "users", id |-> id, k |-> "insert",
                           row |-> UserRow(id, req[r].arg)],
                       "register_insert_category", [user_id |-> id, i |-> 1])

\* The uuid4 drawn for the i-th default category of a new user: the draws are
\* fresh and distinct, named here by the user and the position.
DefaultCategoryId(user_id, i) == GlobalCat + Len(default_categories) * (user_id - 1) + i

\* Ids left to the categories that create_category makes.
CreatedCatIds == {c \in CatIds : c > DefaultCategoryId(MaxUsers, Len(default_categories))}

\* Variant: the loop leaving out the last of default_categories.
register_insert_category_short(r) ==
    /\ pc[r] = "register_insert_category"
    /\ LET id == DefaultCategoryId(local[r].user_id, local[r].i)
           d  == default_categories[local[r].i]
           row == [name |-> d.name, color |-> d.color, icon |-> d.icon,
                   user_id |-> local[r].user_id, id |-> id]
       IN Execute(r, [tbl |-> "categories", id |-> id, k |-> "insert", row |-> row],
                  IF local[r].i = Len(default_categories) - 1
                  THEN "register_commit" ELSE "register_insert_category",
                  [local[r] EXCEPT !.i = @ + 1])

\* for name, color, icon in default_categories: INSERT INTO categories
register_insert_category(r) ==
    /\ pc[r] = "register_insert_category"
    /\ LET id == DefaultCategoryId(local[r].user_id, local[r].i)
           d  == default_categories[local[r].i]
           row == [name |-> d.name, color |-> d.color, icon |-> d.icon,
                   user_id |-> local[r].user_id, id |-> id]
       IN Execute(r, [tbl |-> "categories", id |-> id, k |-> "insert", row |-> row],
                  IF local[r].i = Len(default_categories)
                  THEN "register_commit" ELSE "register_insert_category",
                  [local[r] EXCEPT !.i = @ + 1])

\* conn.commit(), create_token, return TokenData
register_commit(r) ==
    /\ pc[r] = "register_commit"
    /\ CommitDB(r)
    /\ pc' = [pc EXCEPT ![r] = "done"]
    /\ resp' = [resp EXCEPT ![r] =
          [status |-> HTTP_201, detail |-> "",
           body |-> [token |-> create_token(local[r].user_id, now),
                     user |-> UserResponse(UserRow(local[r].user_id, req[r].arg))]]]
    /\ local' = [local EXCEPT ![r] = NoLocal]
    /\ UNCHANGED <<now, connection_pool, req, uid>>

\* A statement or the commit raises psycopg2.Error: rollback, then 500.
register_db_error(r) ==
    /\ pc[r] \in {"register_check", "register_insert_user",
                  "register_insert_category", "register_commit"}
    /\ pc' = [pc EXCEPT ![r] = "done"]
    /\ resp' = [resp EXCEPT ![r] =
          [status |-> HTTP_500, detail |-> "Kayit hatasi", body |-> NoBody]]
    /\ tx' = [tx EXCEPT ![r] = <<>>]
    /\ local' = [local EXCEPT ![r] = [failed_at |-> pc[r], written |-> Len(tx[r])]]
    /\ UNCHANGED <<now, connection_pool, db, req, uid, effect>>

\* ------------------------------------------------------------------- login
\* SELECT ... FROM users WHERE username = %s, verify_password, create_token.
\* The 401 is raised inside the try block whose last clause is
\* `except Exception`, and the handler has no `except HTTPException` clause:
\* the client gets the 500 of that clause.
\* Variant: an unknown username answered apart from a wrong password.
login_outcome_names_cause(a, userRows, t) ==
    LET rows == {u \in userRows : u.username = a.username} IN
    IF rows = {}
    THEN Fails(HTTP_404, "Kullanici bulunamadi")
    ELSE IF \E u \in rows : ~verify_password(a.password, u.password_hash)
    THEN Fails(HTTP_500, "Giris islemi sirasinda beklenmedik bir hata olustu")
    ELSE LET u == CHOOSE x \in rows : TRUE IN
         Returns(HTTP_200, [token |-> create_token(u.id, t), user |-> UserResponse(u)])

login_outcome(a, userRows, t) ==
    LET rows == {u \in userRows : u.username = a.username} IN
    IF rows = {} \/ \E u \in rows : ~verify_password(a.password, u.password_hash)
    THEN Fails(HTTP_500, "Giris islemi sirasinda beklenmedik bir hata olustu")
    ELSE LET u == CHOOSE x \in rows : TRUE IN
         Returns(HTTP_200, [token |-> create_token(u.id, t), user |-> UserResponse(u)])

login(r) ==
    /\ pc[r] = "login"
    /\ Step(r, login_outcome(req[r].arg, users, now))

\* ------------------------------------------------------------------ get_me
get_me(r) ==
    /\ pc[r] = "get_me"
    /\ LET rows == {u \in users : u.id = uid[r]} IN
       IF rows = {}
       THEN Raise(r, HTTP_500, "Kullanici bilgileri alinirken beklenmedik bir hata olustu")
       ELSE Return(r, HTTP_200, UserResponse(CHOOSE x \in rows : TRUE))

\* ------------------------------------------------------- storage: locking
\* Variant: a store whose writes do not wait for one another.
RowLocked_never(r, tbl, id) == FALSE

\* A row another open transaction has updated or deleted, which a write to it
\* waits for. A pending category delete also holds the tasks it sets to NULL.
RowLocked(r, tbl, id) ==
    \E p \in OthersPending(r) :
        \/ p.tbl = tbl /\ p.id = id /\ p.k \in {"update", "delete"}
        \/ /\ tbl = "tasks" /\ p.tbl = "categories" /\ p.k = "delete"
           /\ \E t \in tasks : t.id = id /\ t.category_id = p.id

\* A category another open transaction references from a task it wrote.
CategoryPinned(r, id) ==
    \E p \in OthersPending(r) :
        p.tbl = "tasks" /\ p.k \in {"insert", "update"} /\ p.row.category_id = id

\* A category another open transaction is deleting.
CategoryLeaving(r, id) ==
    \E p \in OthersPending(r) : p.tbl = "categories" /\ p.k = "delete" /\ p.id = id

\* Unique (user_id, name) on categories: a row of another open transaction
\* that a write of (owner, name) waits for, and a committed one it fails on.
CategoryNameWaits(r, id, owner, name) ==
    \/ \E p \in OthersPending(r) :
          /\ p.tbl = "categories" /\ p.k \in {"insert", "update"}
          /\ p.row.user_id = owner /\ p.row.name = name /\ p.id # id
    \/ \E c \in categories :
          c.user_id = owner /\ c.name = name /\ c.id # id /\ RowLocked(r, "categories", c.id)

\* Variant: the SELECT without its `AND id != %s`.
CategoryNameTaken_any_row(id, owner, name) ==
    \E c \in categories : c.user_id = owner /\ c.name = name

CategoryNameTaken(id, owner, name) ==
    \E c \in categories : c.user_id = owner /\ c.name = name /\ c.id # id

\* ------------------------------------------------------------ row shaping
\* A JSON text is the sequence of its tokens: the brackets, the commas and
\* the string literals (each with the string it denotes). A Python value the
\* driver hands over is a str holding a JSON text, a list, or None.
JsonToken(t, s) == [t |-> t, s |-> s]

\* json.dumps of a list of strings: "[", the literals separated by ",", "]"
json_dumps(list) ==
    [kind |-> "str",
     text |-> IF Len(list) = 0
              THEN <<JsonToken("[", ""), JsonToken("]", "")>>
              ELSE [i \in 1..(2 * Len(list) + 1) |->
                      IF i = 1 THEN JsonToken("[", "")
                      ELSE IF i = 2 * Len(list) + 1 THEN JsonToken("]", "")
                      ELSE IF i % 2 = 0 THEN JsonToken("str", list[i \div 2])
                      ELSE JsonToken(",", "")]]

\* The text is a JSON array of string literals.
IsJsonList(text) ==
    /\ Len(text) >= 2
    /\ text[1].t = "[" /\ text[Len(text)].t = "]"
    /\ \/ Len(text) = 2
       \/ /\ Len(text) % 2 = 1
          /\ \A i \in 2..(Len(text) - 1) :
                text[i].t = (IF i % 2 = 0 THEN "str" ELSE ",")

\* json.loads of such a text: the strings its literals denote, in order
json_loads(text) == [k \in 1..((Len(text) - 1) \div 2) |-> text[2 * k].s]

\* Variant: only the `isinstance(raw_value, list)` branch, a str falling
\* through to the empty list.
parse_json_list_field_list_only(raw_value) ==
    IF raw_value.kind = "list" THEN raw_value.items ELSE <<>>

\* Variant: the str branch without its `isinstance(parsed, list)` test and
\* its `except json.JSONDecodeError`, every text read as an array.
parse_json_list_field_unchecked(raw_value) ==
    IF raw_value.kind = "list" THEN raw_value.items
    ELSE IF raw_value.kind = "str" THEN json_loads(raw_value.text)
    ELSE <<>>

\* isinstance(raw_value, list); isinstance(raw_value, str) with json.loads,
\* the list test and the JSONDecodeError clause; anything else, None included
parse_json_list_field(raw_value) ==
    IF raw_value.kind = "list" THEN raw_value.items
    ELSE IF raw_value.kind = "str"
    THEN IF IsJsonList(raw_value.text) THEN json_loads(raw_value.text) ELSE <<>>
    ELSE <<>>

CategoryResponse(c) ==
    [name |-> c.name, color |-> c.color, icon |-> c.icon, user_id |-> c.user_id, id |-> c.id]

\* SELECT t.*, c.name, c.color, c.icon FROM tasks t LEFT JOIN categories c
JoinCategory(t, cats) ==
    LET cs == {c \in cats : c.id = t.category_id} IN
    IF cs = {} THEN [name |-> "<null>", color |-> "<null>", icon |-> "<null>"]
    ELSE LET c == CHOOSE x \in cs : TRUE IN [name |-> c.name, color |-> c.color, icon |-> c.icon]

\* TaskResponse.model_validate: title, priority and status are str and
\* completion_percentage is int, none of them Optional.
TaskResponseValid(t) ==
    /\ t.title # NoText /\ t.priority # NoText /\ t.status # NoText
    /\ t.completion_percentage # NullInt

row_to_task_response(t, cats) ==
    [status |-> t.status, user_id |-> t.user_id, id |-> t.id, category_id |-> t.category_id,
     title |-> t.title, priority |-> t.priority, completion_percentage |-> t.completion_percentage,
     description |-> t.description,
     tags |-> parse_json_list_field(t.tags), images |-> parse_json_list_field(t.images),
     due_date |-> t.due_date, created_at |-> t.created_at,
     updated_at |-> t.updated_at,
     category_name |-> JoinCategory(t, cats).name,
     category_color |-> JoinCategory(t, cats).color,
     category_icon |-> JoinCategory(t, cats).icon]

\* --------------------------------------------------------- create_category
create_category_insert(r) ==
    /\ pc[r] = "create_category_insert"
    /\ ~CategoryNameWaits(r, None, uid[r], req[r].arg.name)
    /\ IF CategoryNameTaken(None, uid[r], req[r].arg.name)
       THEN Raise(r, HTTP_400, "Bu isimde bir kategori zaten mevcut")
       ELSE /\ FreshIds("categories", CreatedCatIds) # {}
            /\ LET id == Min(FreshIds("categories", CreatedCatIds))
                   row == [name |-> req[r].arg.name, color |-> req[r].arg.color, icon |-> req[r].arg.icon,
                           user_id |-> uid[r], id |-> id]
               IN Execute(r, [tbl |-> "categories", id |-> id, k |-> "insert", row |-> row],
                          "create_category_commit", [row |-> row])

create_category_commit(r) ==
    /\ pc[r] = "create_category_commit"
    /\ CommitDB(r)
    /\ pc' = [pc EXCEPT ![r] = "done"]
    /\ resp' = [resp EXCEPT ![r] = [status |-> HTTP_201, detail |-> "",
                                    body |-> CategoryResponse(local[r].row)]]
    /\ UNCHANGED <<now, connection_pool, req, uid, local>>

\* --------------------------------------------------------- update_category
\* uuid.UUID(category_id), the ownership SELECT, model_dump(exclude_unset)
\* Variant: the ownership SELECT written as the task handlers write their
\* category check, `(user_id = %s OR user_id IS NULL)`.
update_category_outcome_or_global(id, body, user_id, cats) ==
    IF id = BadId
    THEN Fails(HTTP_400, "Gecersiz kategori ID formati")
    ELSE IF ~\E c \in cats : c.id = id /\ c.user_id \in {user_id, None}
    THEN Fails(HTTP_404, "Kategori bulunamadi veya size ait degil")
    ELSE IF DOMAIN body = {}
    THEN Fails(HTTP_400, "Guncellenecek alan yok")
    ELSE GoesOn(IF "name" \in DOMAIN body
                THEN "update_category_name" ELSE "update_category_update")

update_category_outcome(id, body, user_id, cats) ==
    IF id = BadId
    THEN Fails(HTTP_400, "Gecersiz kategori ID formati")
    ELSE IF ~\E c \in cats : c.id = id /\ c.user_id = user_id
    THEN Fails(HTTP_404, "Kategori bulunamadi veya size ait degil")
    ELSE IF DOMAIN body = {}
    THEN Fails(HTTP_400, "Guncellenecek alan yok")
    ELSE GoesOn(IF "name" \in DOMAIN body
                THEN "update_category_name" ELSE "update_category_update")

update_category_check(r) ==
    /\ pc[r] = "update_category_check"
    /\ Step(r, update_category_outcome(req[r].id, req[r].body, uid[r], categories))

\* SELECT id FROM categories WHERE name = %s AND user_id = %s AND id != %s
update_category_name(r) ==
    /\ pc[r] = "update_category_name"
    /\ IF CategoryNameTaken(req[r].id, uid[r], req[r].body.name)
       THEN Raise(r, HTTP_400, "Bu isimde bir kategori zaten mevcut")
       ELSE Goto(r, "update_category_update", NoLocal)

\* The row with the supplied columns replaced.
Patched(row, body) ==
    [f \in DOMAIN row |-> IF f \in DOMAIN body THEN body[f] ELSE row[f]]

\* UPDATE categories SET ... WHERE id = %s AND user_id = %s RETURNING ...
update_category_update(r) ==
    /\ pc[r] = "update_category_update"
    /\ ~RowLocked(r, "categories", req[r].id)
    /\ LET rows == {c \in categories : c.id = req[r].id /\ c.user_id = uid[r]} IN
       IF rows = {}
       THEN Goto(r, "update_category_commit", [updated_category |-> NoBody])
       ELSE LET row == Patched(CHOOSE c \in rows : TRUE, req[r].body) IN
            /\ ~CategoryNameWaits(r, row.id, row.user_id, row.name)
            /\ IF CategoryNameTaken(row.id, row.user_id, row.name)
               THEN Raise(r, HTTP_400, "Bu isimde bir kategori zaten mevcut")
               ELSE Execute(r, [tbl |-> "categories", id |-> row.id, k |-> "update", row |-> row],
                            "update_category_commit", [updated_category |-> row])

\* conn.commit(), then the check of what RETURNING gave
update_category_commit(r) ==
    /\ pc[r] = "update_category_commit"
    /\ CommitDB(r)
    /\ pc' = [pc EXCEPT ![r] = "done"]
    /\ resp' = [resp EXCEPT ![r] =
          IF local[r].updated_category = NoBody
          THEN [status |-> HTTP_500, detail |-> "Kategori guncellenemedi", body |-> NoBody]
          ELSE [status |-> HTTP_200, detail |-> "",
                body |-> CategoryResponse(local[r].updated_category)]]
    /\ UNCHANGED <<now, connection_pool, req, uid, local>>

\* --------------------------------------------------------- delete_category
\* uuid.UUID(category_id) and the ownership SELECT
delete_category_outcome(id, user_id, cats) ==
    IF id = BadId
    THEN Fails(HTTP_400, "Gecersiz kategori ID formati")
    ELSE IF ~\E c \in cats : c.id = id /\ c.user_id = user_id
    THEN Fails(HTTP_404, "Kategori bulunamadi veya size ait degil")
    ELSE GoesOn("delete_category_delete")

delete_category_check(r) ==
    /\ pc[r] = "delete_category_check"
    /\ Step(r, delete_category_outcome(req[r].id, uid[r], categories))

\* Variant: the handler deleting a task of the category before the category.
delete_category_delete_with_task(r) ==
    /\ pc[r] = "delete_category_delete"
    /\ ~RowLocked(r, "categories", req[r].id)
    /\ ~CategoryPinned(r, req[r].id)
    /\ \A t \in tasks : t.category_id = req[r].id => ~RowLocked(r, "tasks", t.id)
    /\ IF ~\E c \in categories : c.id = req[r].id /\ c.user_id = uid[r]
       THEN Goto(r, "delete_category_commit", [rowcount |-> 0])
       ELSE /\ pc' = [pc EXCEPT ![r] = "delete_category_commit"]
            /\ local' = [local EXCEPT ![r] = [rowcount |-> 1]]
            /\ tx' = [tx EXCEPT ![r] =
                  @ \o [i \in 1..Cardinality({t \in tasks : t.category_id = req[r].id /\ t.id = 1}) |->
                           [tbl |-> "tasks", id |-> 1, k |-> "delete"]]
                    \o <<[tbl |-> "categories", id |-> req[r].id, k |-> "delete"]>>]
            /\ UNCHANGED <<now, connection_pool, db, req, uid, resp, effect>>

\* DELETE FROM categories WHERE id = %s AND user_id = %s
delete_category_delete(r) ==
    /\ pc[r] = "delete_category_delete"
    /\ ~RowLocked(r, "categories", req[r].id)
    /\ ~CategoryPinned(r, req[r].id)
    /\ \A t \in tasks : t.category_id = req[r].id => ~RowLocked(r, "tasks", t.id)
    /\ IF ~\E c \in categories : c.id = req[r].id /\ c.user_id = uid[r]
       THEN Goto(r, "delete_category_commit", [rowcount |-> 0])
       ELSE Execute(r, [tbl |-> "categories", id |-> req[r].id, k |-> "delete"],
                    "delete_category_commit", [rowcount |-> 1])

\* conn.commit(), then the rowcount check
delete_category_commit(r) ==
    /\ pc[r] = "delete_category_commit"
    /\ CommitDB(r)
    /\ pc' = [pc EXCEPT ![r] = "done"]
    /\ resp' = [resp EXCEPT ![r] =
          IF local[r].rowcount = 0
          THEN [status |-> HTTP_404, detail |-> "Kategori bulunamadi veya size ait degil",
                body |-> NoBody]
          ELSE [status |-> HTTP_204, detail |-> "", body |-> NoBody]]
    /\ UNCHANGED <<now, connection_pool, req, uid, local>>

\* ------------------------------------------------------------- create_task
\* if task_in.category_id: SELECT id FROM categories WHERE id = %s AND
\* (user_id = %s OR user_id IS NULL); the id goes to the uuid column as text.
\* Variant: completion_percentage declared with ge=0 and no le=100.
TaskCreateValid_no_upper_bound(a) ==
    a.title # "" /\ a.completion_percentage >= 0

\* title: str = Field(..., min_length=1);
\* completion_percentage: int = Field(0, ge=0, le=100)
TaskCreateValid(a) ==
    a.title # "" /\ a.completion_percentage >= 0 /\ a.completion_percentage <= 100

\* `task_in: TaskCreate` in the route's signature: FastAPI resolves the
\* dependencies (the connection, get_current_user_id) first, then validates
\* the body against the model, and calls create_task only with a valid one.
create_task_validate(r) ==
    /\ pc[r] = "create_task_validate"
    /\ IF TaskCreateValid(req[r].arg)
       THEN Goto(r, "create_task", NoLocal)
       ELSE Raise(r, HTTP_422, "value is not a valid TaskCreate")

\* Variant: the category SELECT without `AND (user_id = %s OR user_id IS NULL)`.
create_task_category_outcome_any_owner(category_id, user_id, cats) ==
    IF category_id \in {None, EmptyId}
    THEN GoesOn("create_task_insert")
    ELSE IF category_id = BadId
    THEN Fails(HTTP_500, "Veritabani hatasi")
    ELSE IF ~\E c \in cats : c.id = category_id
    THEN Fails(HTTP_404, "Belirtilen kategori bulunamadi veya size ait degil")
    ELSE GoesOn("create_task_insert")

\* Variant: the handler without `if not cur.fetchone(): raise ... 404`.
create_task_category_outcome_unchecked(category_id, user_id, cats) ==
    IF category_id \in {None, EmptyId}
    THEN GoesOn("create_task_insert")
    ELSE IF category_id = BadId
    THEN Fails(HTTP_500, "Veritabani hatasi")
    ELSE GoesOn("create_task_insert")

\* A text that is not a UUID reaches the uuid column of the SELECT: the
\* statement fails and `except psycopg2.Error` answers 500.
create_task_category_outcome(category_id, user_id, cats) ==
    IF category_id \in {None, EmptyId}
    THEN GoesOn("create_task_insert")
    ELSE IF category_id = BadId
    THEN Fails(HTTP_500, "Veritabani hatasi")
    ELSE IF ~\E c \in cats : c.id = category_id /\ c.user_id \in {user_id, None}
    THEN Fails(HTTP_404, "Belirtilen kategori bulunamadi veya size ait degil")
    ELSE GoesOn("create_task_insert")

\* created_at = datetime.now(timezone.utc) on entry, then the category check
create_task_category(r) ==
    /\ pc[r] = "create_task"
    /\ LET o == create_task_category_outcome(req[r].arg.category_id, uid[r], categories) IN
       IF o.next = "done" THEN Step(r, o) ELSE Goto(r, o.next, [created_at |-> now])

\* cat_id_to_use = None, replaced by the id only inside `if task_in.category_id:`
cat_id_to_use(category_id) ==
    IF category_id \in {None, EmptyId} THEN None ELSE category_id

\* tasks.category_id REFERENCES categories: the insert or update of a task
\* waits for a transaction deleting the category, then fails if it is gone.
TaskRow(id, owner, a, t) ==
    [status |-> a.status, user_id |-> owner, id |-> id, category_id |-> a.category_id,
     title |-> a.title, priority |-> a.priority, completion_percentage |-> a.completion_percentage,
     description |-> a.description, tags |-> json_dumps(a.tags),
     images |-> json_dumps(a.images), due_date |-> a.due_date,
     created_at |-> t, updated_at |-> t]

\* INSERT INTO tasks (...) VALUES (...)
create_task_insert(r) ==
    /\ pc[r] = "create_task_insert"
    /\ LET a == [req[r].arg EXCEPT !.category_id = cat_id_to_use(@)] IN
       /\ ~CategoryLeaving(r, a.category_id)
       /\ IF a.category_id # None /\ ~\E c \in categories : c.id = a.category_id
          THEN Raise(r, HTTP_500, "Veritabani hatasi")
          ELSE /\ FreshIds("tasks", TaskIds) # {}
               /\ LET id == Min(FreshIds("tasks", TaskIds)) IN
                  Execute(r, [tbl |-> "tasks", id |-> id, k |-> "insert",
                              row |-> TaskRow(id, uid[r], a, local[r].created_at)],
                          "create_task_commit", [task_id |-> id])

create_task_commit(r) ==
    /\ pc[r] = "create_task_commit"
    /\ CommitDB(r)
    /\ pc' = [pc EXCEPT ![r] = "create_task_readback"]
    /\ UNCHANGED <<now, connection_pool, req, uid, local, resp>>

\* SELECT t.*, ... WHERE t.id = %s, then row_to_task_response
create_task_readback(r) ==
    /\ pc[r] = "create_task_readback"
    /\ LET rows == {t \in tasks : t.id = local[r].task_id} IN
       IF rows = {}
       THEN Raise(r, HTTP_500, "Olusturulan gorev geri alinamadi")
       ELSE IF ~TaskResponseValid(CHOOSE t \in rows : TRUE)
       THEN Raise(r, HTTP_500, "Gorev verisi islenirken hata")
       ELSE Return(r, HTTP_201, row_to_task_response(CHOOSE t \in rows : TRUE, categories))

\* ---------------------------------------------------------------- get_task
\* uuid.UUID(task_id), SELECT t.*, ... WHERE t.id = %s::uuid AND t.user_id =
\* %s::uuid, row_to_task_response. The 404 is raised inside the try block
\* whose last clause is `except Exception`, and the handler has no
\* `except HTTPException` clause: the client gets the 500 of that clause.
\* Variant: the SELECT without its `AND t.user_id = %s::uuid`.
get_task_outcome_any_owner(id, user_id, taskRows, cats) ==
    IF id = BadId
    THEN Fails(HTTP_400, "Gecersiz Gorev ID formati")
    ELSE LET rows == {t \in taskRows : t.id = id} IN
         IF rows = {}
         THEN Fails(HTTP_500, "Gorev alinirken beklenmedik bir hata olustu")
         ELSE Returns(HTTP_200, row_to_task_response(CHOOSE t \in rows : TRUE, cats))

get_task_outcome(id, user_id, taskRows, cats) ==
    IF id = BadId
    THEN Fails(HTTP_400, "Gecersiz Gorev ID formati")
    ELSE LET rows == {t \in taskRows : t.id = id /\ t.user_id = user_id} IN
         IF rows = {}
         THEN Fails(HTTP_500, "Gorev alinirken beklenmedik bir hata olustu")
         ELSE IF ~TaskResponseValid(CHOOSE t \in rows : TRUE)
         THEN Fails(HTTP_500, "Gorev verisi islenemedi")
         ELSE Returns(HTTP_200, row_to_task_response(CHOOSE t \in rows : TRUE, cats))

get_task(r) ==
    /\ pc[r] = "get_task"
    /\ Step(r, get_task_outcome(req[r].id, uid[r], tasks, categories))

\* --------------------------------------------------------------- get_tasks
\* A query parameter that is None or the empty string is falsy: no filter.
\* priority and status are "" when not given.
\* The rows of the caller that pass the filters, in any order that ORDER BY
\* t.created_at DESC allows (rows of equal created_at come in either order).
\* A category filter that parses is appended to the parameters as the
\* uuid.UUID object, every other id in the module being passed as str; the
\* module registers no adapter for that type (no psycopg2.extras
\* register_uuid), so cur.execute raises psycopg2.ProgrammingError before
\* the query is sent. The `except psycopg2.Error` clause then reads
\* `status.HTTP_500_INTERNAL_SERVER_ERROR` from the query parameter `status`
\* (a str or None), which raises in turn: the server answers its plain 500.
Descending(rows) ==
    {s \in [1..Cardinality(rows) -> rows] :
        /\ \A i, j \in DOMAIN s : i # j => s[i] # s[j]
        /\ \A i, j \in DOMAIN s : i < j => s[i].created_at >= s[j].created_at}

\* Variant: `except ValueError` answering 400 as the other handlers do.
get_tasks_outcomes_rejects_malformed(q, user_id, taskRows, cats) ==
    IF q.category_id \notin {None, EmptyId}
    THEN {Fails(IF q.category_id = BadId THEN HTTP_400 ELSE HTTP_500, "Internal Server Error")}
    ELSE LET rows == {t \in taskRows :
                        /\ t.user_id = user_id
                        /\ q.priority # "" => t.priority = q.priority
                        /\ q.status # "" => t.status = q.status}
         IN {Returns(HTTP_200, [i \in DOMAIN s |-> row_to_task_response(s[i], cats)]) :
                s \in Descending(rows)}

get_tasks_outcomes(q, user_id, taskRows, cats) ==
    IF q.category_id \notin {None, EmptyId} /\ q.category_id = BadId
    THEN {Returns(HTTP_200, <<>>)}
    ELSE IF q.category_id \notin {None, EmptyId}
    THEN {Fails(HTTP_500, "Internal Server Error")}
    ELSE LET rows == {t \in taskRows :
                        /\ t.user_id = user_id
                        /\ q.priority # "" => t.priority = q.priority
                        /\ q.status # "" => t.status = q.status}
         IN IF \E t \in rows : ~TaskResponseValid(t)
            THEN {Fails(HTTP_500, "Internal Server Error")}
            ELSE {Returns(HTTP_200, [i \in DOMAIN s |-> row_to_task_response(s[i], cats)]) :
                    s \in Descending(rows)}

get_tasks(r) ==
    /\ pc[r] = "get_tasks"
    /\ \E o \in get_tasks_outcomes(req[r], uid[r], tasks, categories) : Step(r, o)

\* ------------------------------------------------------------- update_task
\* uuid.UUID(task_id), the ownership SELECT, model_dump(exclude_unset), the
\* test for a supplied category_id, the empty-update check
\* Variant: the handler without its `if not update_data` check.
update_task_outcome_no_empty_check(id, body, user_id, taskRows) ==
    IF id = BadId
    THEN Fails(HTTP_400, "Gecersiz Gorev ID formati")
    ELSE IF ~\E t \in taskRows : t.id = id /\ t.user_id = user_id
    THEN Fails(HTTP_404, "Gorev bulunamadi veya size ait degil")
    ELSE IF "category_id" \in DOMAIN body /\ body.category_id # None
    THEN GoesOn("update_task_category")
    ELSE GoesOn("update_task_update")

update_task_outcome(id, body, user_id, taskRows) ==
    IF id = BadId
    THEN Fails(HTTP_400, "Gecersiz Gorev ID formati")
    ELSE IF ~\E t \in taskRows : t.id = id /\ t.user_id = user_id
    THEN Fails(HTTP_404, "Gorev bulunamadi veya size ait degil")
    ELSE IF "category_id" \in DOMAIN body /\ body.category_id # None
    THEN GoesOn("update_task_category")
    ELSE IF DOMAIN body = {}
    THEN Fails(HTTP_400, "Guncellenecek alan yok")
    ELSE GoesOn("update_task_update")

update_task_check(r) ==
    /\ pc[r] = "update_task_check"
    /\ Step(r, update_task_outcome(req[r].id, req[r].body, uid[r], tasks))

\* uuid.UUID(update_data["category_id"]), then SELECT id FROM categories
\* WHERE id = %s::uuid AND (user_id = %s::uuid OR user_id IS NULL)
update_task_category_outcome(category_id, user_id, cats) ==
    IF category_id \in {BadId, EmptyId}
    THEN Fails(HTTP_400, "Gecersiz kategori ID formati")
    ELSE IF ~\E c \in cats : c.id = category_id /\ c.user_id \in {user_id, None}
    THEN Fails(HTTP_404, "Belirtilen kategori bulunamadi veya size ait degil")
    ELSE GoesOn("update_task_update")

update_task_category(r) ==
    /\ pc[r] = "update_task_category"
    /\ Step(r, update_task_category_outcome(req[r].body.category_id, uid[r], categories))

\* Variant: update_data without the `updated_at` the handler adds.
TaskPatch_keeps_updated_at(body, t) ==
    [f \in DOMAIN body |->
        IF f \in {"tags", "images"} THEN json_dumps(body[f])
        ELSE body[f]]

\* update_data with updated_at added and tags, images serialized
TaskPatch(body, t) ==
    [f \in DOMAIN body \cup {"updated_at"} |->
        IF f = "updated_at" THEN t
        ELSE IF f \in {"tags", "images"} THEN json_dumps(body[f])
        ELSE body[f]]

\* The columns of tasks the UPDATE sets to NULL. Whether the table declares
\* them NOT NULL is not in the source: the store may take the NULL or refuse it.
NullsWritten(body) ==
    {f \in DOMAIN body \cap {"title", "priority", "status"} : body[f] = NoText}
    \cup {f \in DOMAIN body \cap {"completion_percentage"} : body[f] = NullInt}

\* UPDATE tasks SET ... WHERE id = %s::uuid AND user_id = %s::uuid RETURNING id
update_task_update(r) ==
    /\ pc[r] = "update_task_update"
    /\ ~RowLocked(r, "tasks", req[r].id)
    /\ LET rows == {t \in tasks : t.id = req[r].id /\ t.user_id = uid[r]} IN
       IF rows = {}
       THEN Goto(r, "update_task_commit", [updated_row_id |-> None])
       ELSE LET row == Patched(CHOOSE t \in rows : TRUE, TaskPatch(req[r].body, now)) IN
            /\ ~("category_id" \in DOMAIN req[r].body /\ CategoryLeaving(r, row.category_id))
            /\ \E not_null \in {c \in BOOLEAN : c => NullsWritten(req[r].body) # {}} :
               IF \/ not_null
                  \/ /\ "category_id" \in DOMAIN req[r].body
                     /\ row.category_id # None
                     /\ ~\E c \in categories : c.id = row.category_id
               THEN Raise(r, HTTP_500, "Veritabani hatasi")
               ELSE Execute(r, [tbl |-> "tasks", id |-> row.id, k |-> "update", row |-> row],
                            "update_task_commit", [updated_row_id |-> row.id])

\* conn.commit(), then the check of what RETURNING gave
update_task_commit(r) ==
    /\ pc[r] = "update_task_commit"
    /\ CommitDB(r)
    /\ IF local[r].updated_row_id = None
       THEN /\ pc' = [pc EXCEPT ![r] = "done"]
            /\ resp' = [resp EXCEPT ![r] =
                  [status |-> HTTP_500,
                   detail |-> "Gorev guncellenemedi veya ID geri alinamadi",
                   body |-> NoBody]]
       ELSE /\ pc' = [pc EXCEPT ![r] = "update_task_readback"]
            /\ UNCHANGED resp
    /\ UNCHANGED <<now, connection_pool, req, uid, local>>

\* SELECT t.*, ... WHERE t.id = %s::uuid AND t.user_id = %s::uuid
update_task_readback(r) ==
    /\ pc[r] = "update_task_readback"
    /\ LET rows == {t \in tasks : t.id = req[r].id /\ t.user_id = uid[r]} IN
       IF rows = {}
       THEN Raise(r, HTTP_500, "Guncellenen gorev bulunamadi")
       ELSE IF ~TaskResponseValid(CHOOSE t \in rows : TRUE)
       THEN Raise(r, HTTP_500, "Gorev guncelleme verisi islenirken hata")
       ELSE Return(r, HTTP_200, row_to_task_response(CHOOSE t \in rows : TRUE, categories))

\* ------------------------------------------------------------- delete_task
\* Variant: a task of another user answered with 403 instead of 404.
delete_task_outcome_forbidden(id, user_id, taskRows) ==
    IF id = BadId
    THEN Fails(HTTP_400, "Gecersiz Gorev ID formati")
    ELSE IF \E t \in taskRows : t.id = id /\ t.user_id # user_id
    THEN Fails(403, "Bu gorev size ait degil")
    ELSE IF ~\E t \in taskRows : t.id = id
    THEN Fails(HTTP_404, "Gorev bulunamadi veya size ait degil")
    ELSE GoesOn("delete_task_delete")

\* uuid.UUID(task_id) and the ownership SELECT
delete_task_outcome(id, user_id, taskRows) ==
    IF id = BadId
    THEN Fails(HTTP_400, "Gecersiz Gorev ID formati")
    ELSE IF ~\E t \in taskRows : t.id = id /\ t.user_id = user_id
    THEN Fails(HTTP_404, "Gorev bulunamadi veya size ait degil")
    ELSE GoesOn("delete_task_delete")

delete_task_check(r) ==
    /\ pc[r] = "delete_task_check"
    /\ Step(r, delete_task_outcome(req[r].id, uid[r], tasks))

\* DELETE FROM tasks WHERE id = %s::uuid AND user_id = %s::uuid, then the
\* rowcount check before the commit
delete_task_delete(r) ==
    /\ pc[r] = "delete_task_delete"
    /\ ~RowLocked(r, "tasks", req[r].id)
    /\ IF ~\E t \in tasks : t.id = req[r].id /\ t.user_id = uid[r]
       THEN Raise(r, HTTP_500, "Gorev silinemedi")
       ELSE Execute(r, [tbl |-> "tasks", id |-> req[r].id, k |-> "delete"],
                    "delete_task_commit", NoLocal)

delete_task_commit(r) ==
    /\ pc[r] = "delete_task_commit"
    /\ CommitDB(r)
    /\ pc' = [pc EXCEPT ![r] = "done"]
    /\ resp' = [resp EXCEPT ![r] = [status |-> HTTP_204, detail |-> "", body |-> NoBody]]
    /\ UNCHANGED <<now, connection_pool, req, uid, local>>

\* ------------------------------------------------------------ the requests
\* Bearer tokens a client may present: what create_token issued at the given
\* times, one with a foreign signature, and one whose payload has no user_id.
Tokens(times) ==
    {create_token(u, t) : u \in UserIds, t \in times}
    \cup {[user_id |-> 1, sig |-> FALSE, exp |-> MaxTime + TokenLifetime],
          [user_id |-> None, sig |-> TRUE, exp |-> MaxTime + TokenLifetime]}

\* A request arrives on a free worker: its connection is fresh from the pool
\* (no open transaction) and the previous response has been sent.
NewRequest(r, q, label) ==
    /\ pc[r] \in {"idle", "done"}
    /\ pc' = [pc EXCEPT ![r] = label]
    /\ req' = [req EXCEPT ![r] = q]
    /\ uid' = [uid EXCEPT ![r] = None]
    /\ local' = [local EXCEPT ![r] = NoLocal]
    /\ resp' = [resp EXCEPT ![r] = NoResp]
    /\ effect' = [effect EXCEPT ![r] = {}]
    /\ tx' = [tx EXCEPT ![r] = <<>>]
    /\ UNCHANGED <<now, connection_pool, db>>

start_register(r, args) ==
    \E a \in args : NewRequest(r, [op |-> "register", arg |-> a], "register_check")

start_login(r, args) ==
    \E a \in args : NewRequest(r, [op |-> "login", arg |-> a], "login")

start_get_me(r, tokens) ==
    \E t \in tokens : NewRequest(r, [op |-> "get_me", token |-> t], "auth")

start_create_category(r, tokens, args) ==
    \E t \in tokens, a \in args :
        NewRequest(r, [op |-> "create_category", token |-> t, arg |-> a], "auth")

start_update_category(r, tokens, ids, bodies) ==
    \E t \in tokens, id \in ids, b \in bodies :
        NewRequest(r, [body |-> b, op |-> "update_category", id |-> id, token |-> t], "auth")

start_delete_category(r, tokens, ids) ==
    \E t \in tokens, id \in ids :
        NewRequest(r, [op |-> "delete_category", id |-> id, token |-> t], "auth")

start_create_task(r, tokens, args) ==
    \E t \in tokens, a \in args :
        NewRequest(r, [op |-> "create_task", token |-> t, arg |-> a], "auth")

start_get_task(r, tokens, ids) ==
    \E t \in tokens, id \in ids :
        NewRequest(r, [op |-> "get_task", id |-> id, token |-> t], "auth")

start_get_tasks(r, tokens, category_ids, priorities, statuses) ==
    \E t \in tokens, c \in category_ids, p \in priorities, s \in statuses :
        NewRequest(r, [status |-> s, op |-> "get_tasks", category_id |-> c,
                       token |-> t, priority |-> p], "auth")

start_update_task(r, tokens, ids, bodies) ==
    \E t \in tokens, id \in ids, b \in bodies :
        NewRequest(r, [body |-> b, op |-> "update_task", id |-> id, token |-> t], "auth")

start_delete_task(r, tokens, ids) ==
    \E t \in tokens, id \in ids :
        NewRequest(r, [op |-> "delete_task", id |-> id, token |-> t], "auth")

Tick ==
    /\ now < MaxTime
    /\ now' = now + 1
    /\ UNCHANGED <<db, pc, req, uid, local, tx, resp, effect, connection_pool>>

\* ------------------------------------------------------------------- Init
GlobalCategory ==
    [name |-> "Genel", color |-> "#808080", icon |-> NoIcon, user_id |-> None, id |-> GlobalCat]

Init ==
    /\ now = 0
    /\ users = {}
    /\ categories = {GlobalCategory}
    /\ tasks = {}
    /\ ever = [users |-> {}, categories |-> {GlobalCat}, tasks |-> {}]
    /\ pc = [r \in Reqs |-> "idle"]
    /\ req = [r \in Reqs |-> NoReq]
    /\ uid = [r \in Reqs |-> None]
    /\ local = [r \in Reqs |-> NoLocal]
    /\ tx = [r \in Reqs |-> <<>>]
    /\ resp = [r \in Reqs |-> NoResp]
    /\ effect = [r \in Reqs |-> {}]
    /\ connection_pool = PoolAtStart

\* ------------------------------------------------- inputs of the requests
RegisterArgs == [password : {"pw123"}, username : Usernames, email : Emails]
LoginArgs    == [password : Passwords, username : Usernames]

\* Tokens of sessions opened at time 0, one per user id.
SessionTokens == {create_token(u, 0) : u \in UserIds}

EmptyBody == [f \in {} |-> None]

TaskUpdateBodies     == {EmptyBody, [status |-> "Tamamlandi"]}
CategoryUpdateBodies == {EmptyBody, [name |-> "Okul"]}

\* Variant: status declared with the default "Devam Ediyor".
TaskCreate_other_status(title, category_id) ==
    [status |-> "Devam Ediyor", category_id |-> category_id, title |-> title, priority |-> "Orta",
     completion_percentage |-> 0, description |-> "", tags |-> <<>>,
     images |-> <<>>, due_date |-> "<null>"]

\* TaskCreate with its defaults
TaskCreate(title, category_id) ==
    [status |-> "Yapilacak", category_id |-> category_id, title |-> title, priority |-> "Orta",
     completion_percentage |-> 0, description |-> "", tags |-> <<>>,
     images |-> <<>>, due_date |-> "<null>"]

\* ------------------------------------------------------------ SpecAuth
\* Accounts and sessions over 30 days and more: register, login, the auth
\* dependency and /auth/me, one request at a time, with the clock running.
NextAuth ==
    \/ Tick
    \/ \E r \in {"r1"} :
        \/ start_register(r, RegisterArgs)
        \/ start_login(r, LoginArgs)
        \/ start_get_me(r, Tokens({0, 1}))
        \/ get_current_user_id(r)
        \/ register_check(r)
        \/ register_insert_user(r)
        \/ register_insert_category(r)
        \/ register_commit(r)
        \/ login(r)
        \/ get_me(r)

SpecAuth == Init /\ [][NextAuth]_vars

\* ------------------------------------------------ properties under SpecAuth
\* The credentials are those of a stored user.
CredentialsMatch(a, userRows) ==
    \E u \in userRows : u.username = a.username /\ verify_password(a.password, u.password_hash)

\* C5: login answers Unauthenticated (401) when the username is unknown or
\* the password does not verify against the stored hash, and otherwise
\* returns a token that resolves to that user's id.
C5_LoginUnauthenticated ==
    [][\A r \in Reqs :
          (pc[r] = "login" /\ pc'[r] = "done") =>
              IF CredentialsMatch(req[r].arg, users)
              THEN /\ resp'[r].status = HTTP_200
                   /\ \E u \in users :
                          /\ u.username = req[r].arg.username
                          /\ ResolveToken(resp'[r].body.token, now, users) = u.id
              ELSE resp'[r].status = HTTP_401]_vars

\* Credentials a client may send, a username nobody registers among them.
AnyLoginArgs == [password : Passwords, username : Usernames \cup {"carol"}]

\* C6: the response to a failed login is the same whether the username is
\* unknown or the password is wrong: over every reachable users table, every
\* pair of failing credentials gets one and the same failure response, and
\* the response of every failed login request is that one.
C6_LoginFailuresAlike ==
    /\ \A a, b \in AnyLoginArgs :
           (~CredentialsMatch(a, users) /\ ~CredentialsMatch(b, users)) =>
               /\ login_outcome(a, users, now) = login_outcome(b, users, now)
               /\ login_outcome(a, users, now).status >= HTTP_400
    /\ \A r \in Reqs :
           (pc[r] = "done" /\ req[r].op = "login" /\ resp[r].status # HTTP_200) =>
               /\ resp[r].status
                      = login_outcome([password |-> "pw123", username |-> "carol"], users, now).status
               /\ resp[r].detail
                      = login_outcome([password |-> "pw123", username |-> "carol"], users, now).detail
               /\ resp[r].body = NoBody

\* A login with the wrong password for a registered user has failed, while
\* another username is still unknown.
C6_Witness ==
    \E r \in Reqs :
        /\ pc[r] = "done" /\ req[r].op = "login" /\ resp[r].status >= HTTP_400
        /\ \E u \in users :
               /\ u.username = req[r].arg.username
               /\ ~verify_password(req[r].arg.password, u.password_hash)
        /\ \E n \in Usernames : \A u \in users : u.username # n

\* C7: on a protected endpoint the bearer token resolves to a user id iff it
\* is signed by this system, was issued less than 30 days ago, and names a
\* user that exists at the time of the request; otherwise the request is
\* answered Unauthenticated and no handler code runs.
C7_AuthGate ==
    [][\A r \in Reqs :
          (pc[r] = "auth" /\ pc'[r] # "auth") =>
              IF /\ req[r].token.sig
                 /\ now - (req[r].token.exp - TokenLifetime) < TokenLifetime
                 /\ \E u \in users : u.id = req[r].token.user_id
              THEN /\ uid'[r] = req[r].token.user_id
                   /\ pc'[r] = FirstLabel(req[r].op)
                   /\ resp'[r] = NoResp
              ELSE /\ pc'[r] = "done"
                   /\ resp'[r].status = HTTP_401
                   /\ uid'[r] = None
                   /\ UNCHANGED <<users, categories, tasks>>]_vars

\* The token of a registered user, issued 30 days before, has been refused.
C7_Witness ==
    \E r \in Reqs :
        /\ pc[r] = "done" /\ req[r].op = "get_me" /\ resp[r].status = HTTP_401
        /\ req[r].token.sig
        /\ now - (req[r].token.exp - TokenLifetime) = TokenLifetime
        /\ \E u \in users : u.id = req[r].token.user_id


\* ---------------------------------------------------------- SpecRegister
\* Two registrations at once, each statement and the commit free to fail.
NextRegister ==
    \E r \in Reqs :
        \/ start_register(r, RegisterArgs)
        \/ register_check(r)
        \/ register_insert_user(r)
        \/ register_insert_category(r)
        \/ register_commit(r)
        \/ register_db_error(r)

SpecRegister == Init /\ [][NextRegister]_vars

\* -------------------------------------------- properties under SpecRegister
\* What a commit that created row `id` of table `tbl` for `owner` records.
Created(tbl, id, owner) == [tbl |-> tbl, id |-> id, owner |-> owner, how |-> "insert"]

\* The categories of `owner` are the three default ones, once each.
HasDefaultCategories(owner) ==
    LET cs == {c \in categories : c.user_id = owner} IN
    /\ Cardinality(cs) = Len(default_categories)
    /\ {[name |-> c.name, color |-> c.color, icon |-> c.icon] : c \in cs}
           = SeqToSet(default_categories)

\* C8: after every successful register, the returned token resolves to the
\* id of the user row just created, exactly three categories owned by that
\* user exist (the three default categories), and the request created no
\* other rows.
C8_RegisterCreates ==
    \A r \in Reqs :
        (pc[r] = "done" /\ req[r].op = "register" /\ resp[r].status = HTTP_201) =>
            LET id == ResolveToken(resp[r].body.token, now, users) IN
            /\ id # None
            /\ resp[r].body.user.id = id
            /\ Created("users", id, id) \in effect[r]
            /\ \E u \in users :
                   /\ u.id = id
                   /\ u.username = req[r].arg.username
                   /\ u.email = req[r].arg.email
                   /\ verify_password(req[r].arg.password, u.password_hash)
            /\ HasDefaultCategories(id)
            /\ effect[r] = {Created("users", id, id)}
                   \cup {Created("categories", c.id, id) :
                            c \in {x \in categories : x.user_id = id}}

\* Both registrations in flight have succeeded.
C8_Witness ==
    \A r \in Reqs :
        pc[r] = "done" /\ req[r].op = "register" /\ resp[r].status = HTTP_201

\* The storage itself failed under the request (psycopg2.Error).
StorageFailed(r) == "failed_at" \in DOMAIN local[r]

\* C9: register called with a username already present in users, or with a
\* non-null email already present, answers Conflict (400) and creates no
\* rows (when the storage fails under the check, the answer is its 500, and
\* no rows either).
C9_RegisterConflict ==
    [][\A r \in Reqs :
          (/\ pc[r] = "register_check"
           /\ pc'[r] # pc[r]
           /\ \E u \in users :
                  \/ u.username = req[r].arg.username
                  \/ (req[r].arg.email # NoEmail /\ u.email = req[r].arg.email))
          => /\ pc'[r] = "done"
             /\ resp'[r].status = HTTP_400 \/ StorageFailed(r)'
             /\ effect'[r] = {}
             /\ tx'[r] = <<>>
             /\ UNCHANGED <<users, categories, tasks>>]_vars

\* A registration under a new username with the email of a stored user has
\* been answered 400.
C9_Witness ==
    \E r \in Reqs :
        /\ pc[r] = "done" /\ req[r].op = "register" /\ resp[r].status = HTTP_400
        /\ \A u \in users : u.username # req[r].arg.username
        /\ \E u \in users : u.email = req[r].arg.email /\ u.email # NoEmail

\* C10: register is atomic: if any step fails (the user insert, any of the
\* three category inserts, the commit), the committed state contains neither
\* the new user nor any of its categories. Every stored user has its three
\* default categories, every owned category has its user, and a request
\* that did not answer 201 has committed nothing.
C10_RegisterAtomic ==
    /\ \A u \in users : HasDefaultCategories(u.id)
    /\ \A c \in categories : c.user_id # None => \E u \in users : u.id = c.user_id
    /\ \A r \in Reqs :
           (req[r].op = "register" /\ effect[r] # {}) =>
               pc[r] = "done" /\ resp[r].status = HTTP_201
    /\ \A r \in Reqs :
           (pc[r] = "done" /\ req[r].op = "register" /\ resp[r].status # HTTP_201) =>
               /\ effect[r] = {}
               /\ tx[r] = <<>>

\* A registration failed after its user row and two categories were written,
\* and one failed at the commit, with all four rows written.
C10_Witness ==
    \E r, q \in Reqs :
        /\ pc[r] = "done" /\ resp[r].status = HTTP_500 /\ StorageFailed(r)
        /\ local[r].failed_at = "register_insert_category" /\ local[r].written = 3
        /\ pc[q] = "done" /\ resp[q].status = HTTP_500 /\ StorageFailed(q)
        /\ local[q].failed_at = "register_commit" /\ local[q].written = 4


\* -------------------------------------------------------------- SpecOwn
\* Two users with their default categories, one task of the first user in
\* her first category, and two requests at once reading, updating and
\* deleting those rows; deletes also name a task id that no row ever had.
DefaultCategoryRow(id, owner, i) ==
    [name |-> default_categories[i].name, color |-> default_categories[i].color, icon |-> default_categories[i].icon,
     user_id |-> owner, id |-> id]

SeedUsers ==
    {UserRow(1, [password |-> "pw123", username |-> "alice", email |-> NoEmail]),
     UserRow(2, [password |-> "pw123", username |-> "bob", email |-> "a@x.io"])}

SeedCategories ==
    {GlobalCategory}
    \cup {DefaultCategoryRow(1 + i, 1, i) : i \in 1..3}
    \cup {DefaultCategoryRow(4 + i, 2, i) : i \in 1..3}

SeedTasks == {TaskRow(1, 1, TaskCreate("Buy milk", 2), 0)}

InitOwn ==
    /\ now = 0
    /\ users = SeedUsers
    /\ categories = SeedCategories
    /\ tasks = SeedTasks
    /\ ever = [users |-> {1, 2}, categories |-> 1..7, tasks |-> {1}]
    /\ pc = [r \in Reqs |-> "idle"]
    /\ req = [r \in Reqs |-> NoReq]
    /\ uid = [r \in Reqs |-> None]
    /\ local = [r \in Reqs |-> NoLocal]
    /\ tx = [r \in Reqs |-> <<>>]
    /\ resp = [r \in Reqs |-> NoResp]
    /\ effect = [r \in Reqs |-> {}]
    /\ connection_pool = PoolAtStart

NextOwn ==
    \E r \in Reqs :
        \/ start_get_task(r, SessionTokens, {1})
        \/ start_update_task(r, SessionTokens, {1}, TaskUpdateBodies)
        \/ start_delete_task(r, SessionTokens, {1, MaxTasks})
        \/ start_update_category(r, SessionTokens, {GlobalCat, 2}, CategoryUpdateBodies)
        \/ start_delete_category(r, SessionTokens, {GlobalCat, 2})
        \/ get_current_user_id(r)
        \/ get_task(r)
        \/ update_task_check(r)
        \/ update_task_update(r)
        \/ update_task_commit(r)
        \/ update_task_readback(r)
        \/ delete_task_check(r)
        \/ delete_task_delete(r)
        \/ delete_task_commit(r)
        \/ update_category_check(r)
        \/ update_category_name(r)
        \/ update_category_update(r)
        \/ update_category_commit(r)
        \/ delete_category_check(r)
        \/ delete_category_delete(r)
        \/ delete_category_commit(r)

SpecOwn == InitOwn /\ [][NextOwn]_vars

\* ------------------------------------------------- properties under SpecOwn
OwnerOps == {"get_task", "update_task", "delete_task", "update_category", "delete_category"}

\* C1: under any interleaving of requests, get_task, update_task, delete_task,
\* update_category and delete_category called by user A read, modify and
\* delete only rows whose owner is A: every committed row a request's commits
\* changed or removed belongs to its caller, and a row it returns is the
\* caller's.
C1_OnlyOwnRows ==
    \A r \in Reqs :
        req[r].op \in OwnerOps =>
            /\ \A e \in effect[r] : e.owner = uid[r]
            /\ \A p \in PendingOf(r) :
                   \A x \in (IF p.tbl = "tasks" THEN tasks ELSE categories) :
                       x.id = p.id => x.user_id = uid[r]
            /\ (pc[r] = "done" /\ resp[r].status = HTTP_200) =>
                   resp[r].body.user_id = uid[r]

\* A request of one user on the task of another has finished while the task
\* is still stored, and the other request in flight has committed a change.
C1_Witness ==
    \E r, q \in Reqs :
        /\ r # q
        /\ pc[r] = "done"
        /\ req[r].op \in {"get_task", "update_task", "delete_task"}
        /\ uid[r] # None
        /\ \E t \in tasks : t.id = req[r].id /\ t.user_id # uid[r]
        /\ effect[q] # {}

\* C2: get_task with a well-formed id that matches no row of the caller (no
\* such row, or a row of another user) answers NotFound.
C2_GetTaskNotFound ==
    [][\A r \in Reqs :
          (/\ pc[r] = "get_task"
           /\ pc'[r] = "done"
           /\ req[r].id # BadId
           /\ ~\E t \in tasks : t.id = req[r].id /\ t.user_id = uid[r])
          => resp'[r].status = HTTP_404]_vars

CheckLabels ==
    {"update_task_check", "delete_task_check", "update_category_check", "delete_category_check"}

\* The rows of the table the request's path id names.
Target(r) == IF req[r].op \in {"get_task", "update_task", "delete_task"} THEN tasks ELSE categories

AnyTaskUpdateBodies ==
    TaskUpdateBodies
    \cup {[category_id |-> BadId], [category_id |-> GlobalCat], [title |-> "Buy bread"],
          [category_id |-> None]}

AnyCategoryUpdateBodies ==
    CategoryUpdateBodies \cup {[name |-> "Genel"], [color |-> "#000000"]}

\* C4: for a get, update or delete of a task or category, the response to a
\* caller for an id that another user owns is identical (status and body) to
\* the response the same request gets when no row has that id, whatever the
\* request body: in every reachable database, for every user and every
\* stored row of somebody else, each handler answers the same, with a
\* failure, with the row there and with it gone.
C4_ForeignAsAbsent ==
    \A u \in {x.id : x \in users} :
        /\ \A t \in {x \in tasks : x.user_id # u} :
            /\ get_task_outcome(t.id, u, tasks, categories)
                   = get_task_outcome(t.id, u, tasks \ {t}, categories)
            /\ get_task_outcome(t.id, u, tasks, categories).next = "done"
            /\ get_task_outcome(t.id, u, tasks, categories).status >= HTTP_400
            /\ delete_task_outcome(t.id, u, tasks) = delete_task_outcome(t.id, u, tasks \ {t})
            /\ delete_task_outcome(t.id, u, tasks).next = "done"
            /\ delete_task_outcome(t.id, u, tasks).status >= HTTP_400
            /\ \A b \in AnyTaskUpdateBodies :
                /\ update_task_outcome(t.id, b, u, tasks)
                       = update_task_outcome(t.id, b, u, tasks \ {t})
                /\ update_task_outcome(t.id, b, u, tasks).next = "done"
                /\ update_task_outcome(t.id, b, u, tasks).status >= HTTP_400
        /\ \A c \in {x \in categories : x.user_id # u} :
            /\ delete_category_outcome(c.id, u, categories)
                   = delete_category_outcome(c.id, u, categories \ {c})
            /\ delete_category_outcome(c.id, u, categories).next = "done"
            /\ delete_category_outcome(c.id, u, categories).status >= HTTP_400
            /\ \A b \in AnyCategoryUpdateBodies :
                /\ update_category_outcome(c.id, b, u, categories)
                       = update_category_outcome(c.id, b, u, categories \ {c})
                /\ update_category_outcome(c.id, b, u, categories).next = "done"
                /\ update_category_outcome(c.id, b, u, categories).status >= HTTP_400

\* A delete of a task of another user and a delete of a task id that no row
\* ever had have both been answered, with the same response.
C4_Witness ==
    \E r, q \in Reqs :
        /\ pc[r] = "done" /\ pc[q] = "done"
        /\ req[r].op = "delete_task" /\ req[q].op = "delete_task"
        /\ uid[r] # None /\ uid[q] = uid[r]
        /\ \E t \in tasks : t.id = req[r].id /\ t.user_id # uid[r]
        /\ req[q].id \in TaskIds \ ever.tasks
        /\ resp[q].status >= HTTP_400
        /\ resp[r] = resp[q]


\* --------------------------------------------------------------- SpecSeed
\* From the empty database, one request at a time: the two registrations and
\* the two task creations that lead to the rows SpecOwn starts from.
NextSeed ==
    \E r \in {"r1"} :
        \/ start_register(r, {a \in RegisterArgs : \E u \in SeedUsers : u = UserRow(u.id, a)})
        \/ start_create_task(r, SessionTokens, {TaskCreate("Buy milk", 2)})
        \/ get_current_user_id(r)
        \/ register_check(r)
        \/ register_insert_user(r)
        \/ register_insert_category(r)
        \/ register_commit(r)
        \/ create_task_validate(r)
        \/ create_task_category(r)
        \/ create_task_insert(r)
        \/ create_task_commit(r)
        \/ create_task_readback(r)

SpecSeed == Init /\ [][NextSeed]_vars

SeedReached ==
    users = SeedUsers /\ categories = SeedCategories /\ tasks = SeedTasks

SeedNotReached == ~SeedReached

\* --------------------------------------------------------------- SpecEdit
\* Partial updates by the first user of their task and of one of their
\* categories, on the rows SpecOwn starts from, one request at a time, with
\* the clock running.
EditTaskBodies ==
    {EmptyBody,
     [status |-> "Tamamlandi"],
     [title |-> "Buy bread", tags |-> <<"home", "food">>],
     [priority |-> "Yuksek", completion_percentage |-> 50],
     [description |-> "2 l", images |-> <<"a.png">>],
     [category_id |-> 3],
     [category_id |-> None]}

EditCategoryBodies ==
    {EmptyBody, [name |-> "Okul"], [name |-> "Is"], [color |-> "#000000", icon |-> "book"]}

NextEdit ==
    \/ Tick
    \/ \E r \in {"r1"} :
        \/ start_update_task(r, {create_token(1, 0)}, {1}, EditTaskBodies)
        \/ start_update_category(r, {create_token(1, 0)}, {2}, EditCategoryBodies)
        \/ get_current_user_id(r)
        \/ update_task_check(r)
        \/ update_task_category(r)
        \/ update_task_update(r)
        \/ update_task_commit(r)
        \/ update_task_readback(r)
        \/ update_category_check(r)
        \/ update_category_name(r)
        \/ update_category_update(r)
        \/ update_category_commit(r)

SpecEdit == InitOwn /\ [][NextEdit]_vars

\* The columns of a task, each read the way the API returns it.
TaskColumns ==
    {"id", "user_id", "title", "description", "category_id", "tags", "priority", "status",
     "completion_percentage", "images", "due_date", "created_at", "updated_at"}

TaskView(t) == row_to_task_response(t, {})

CategoryColumns == {"id", "user_id", "name", "color", "icon"}

\* The write the request r has pending from its last statement.
LastWrite(r) == tx'[r][Len(tx'[r])]

\* C11: a successful update_task or update_category changes exactly the
\* supplied fields. The UPDATE statement of update_task writes, for the row
\* of the request, the supplied value in every supplied column, the time of
\* the update in updated_at, and the prior value in every other column; the
\* UPDATE of update_category writes the supplied value in every supplied
\* column and the prior value in every other; the commit that follows puts
\* exactly that row in place of the old one and changes no other row.
C11_SuppliedFieldsOnly ==
    [][\A r \in Reqs :
        /\ (pc[r] = "update_task_update" /\ pc'[r] = "update_task_commit"
                /\ Len(tx'[r]) > Len(tx[r]))
           => \E old \in tasks :
                /\ old.id = req[r].id
                /\ LastWrite(r).k = "update" /\ LastWrite(r).tbl = "tasks"
                /\ LastWrite(r).id = old.id
                /\ \A f \in TaskColumns :
                      TaskView(LastWrite(r).row)[f] =
                         IF f \in DOMAIN req[r].body THEN req[r].body[f]
                         ELSE IF f = "updated_at" THEN now
                         ELSE TaskView(old)[f]
        /\ (pc[r] = "update_task_commit" /\ pc'[r] = "update_task_readback")
           => /\ Len(tx[r]) = 1
              /\ tasks' = {t \in tasks : t.id # req[r].id} \cup {tx[r][1].row}
              /\ UNCHANGED <<users, categories>>
        /\ (pc[r] = "update_category_update" /\ pc'[r] = "update_category_commit"
                /\ Len(tx'[r]) > Len(tx[r]))
           => \E old \in categories :
                /\ old.id = req[r].id
                /\ LastWrite(r).k = "update" /\ LastWrite(r).tbl = "categories"
                /\ LastWrite(r).id = old.id
                /\ \A f \in CategoryColumns :
                      LastWrite(r).row[f] =
                         IF f \in DOMAIN req[r].body THEN req[r].body[f] ELSE old[f]
        /\ (pc[r] = "update_category_commit" /\ pc'[r] = "done"
                /\ resp'[r].status = HTTP_200)
           => /\ Len(tx[r]) = 1
              /\ categories' = {c \in categories : c.id # req[r].id} \cup {tx[r][1].row}
              /\ resp'[r].body = CategoryResponse(tx[r][1].row)
              /\ UNCHANGED <<users, tasks>>
      ]_vars

\* A task update that supplied title and tags has answered after the clock
\* moved: the new title and tags, the old status and category, the later
\* updated_at; and a category has been recoloured under its old name.
C11_Witness ==
    /\ pc["r1"] = "done"
    /\ req["r1"].op = "update_task"
    /\ DOMAIN req["r1"].body = {"title", "tags"}
    /\ resp["r1"].status = HTTP_200
    /\ resp["r1"].body.title = "Buy bread"
    /\ resp["r1"].body.tags = <<"home", "food">>
    /\ resp["r1"].body.category_id = 2
    /\ resp["r1"].body.updated_at > resp["r1"].body.created_at
    /\ \E c \in categories : c.id = 2 /\ c.color = "#000000" /\ c.name = "Genel"

CatTaskCreates == {TaskCreate("Buy milk", c) : c \in {2, GlobalCat}}

CatTaskBodies == {[category_id |-> 3], [category_id |-> None]}

NextCat ==
    \E r \in Reqs :
        \/ start_create_task(r, {create_token(1, 0)}, {TaskCreate("Buy milk", 2)})
        \/ start_create_task(r, {create_token(2, 0)}, CatTaskCreates)
        \/ start_update_task(r, {create_token(1, 0)}, {1}, CatTaskBodies)
        \/ start_delete_category(r, {create_token(1, 0)}, {2, 3})
        \/ start_update_category(r, {create_token(1, 0)}, {3}, {[name |-> "Okul"]})
        \/ get_current_user_id(r)
        \/ create_task_validate(r)
        \/ create_task_category(r)
        \/ create_task_insert(r)
        \/ create_task_commit(r)
        \/ create_task_readback(r)
        \/ update_task_check(r)
        \/ update_task_category(r)
        \/ update_task_update(r)
        \/ update_task_commit(r)
        \/ update_task_readback(r)
        \/ update_category_check(r)
        \/ update_category_name(r)
        \/ update_category_update(r)
        \/ update_category_commit(r)
        \/ delete_category_check(r)
        \/ delete_category_delete(r)
        \/ delete_category_commit(r)

SpecCat == InitOwn /\ [][NextCat]_vars

\* C13: a successful delete_category removes only the category row. At the
\* commit of a delete that found its row, in one step: categories loses the
\* row of the request and nothing else; every task is still there, a task
\* that referenced the category with category_id NULL and every other column
\* as before, any other task untouched; no task is added; users is unchanged.
C13_DeleteCategoryClears ==
    [][\A r \in Reqs :
        (/\ pc[r] = "delete_category_commit"
         /\ pc'[r] = "done"
         /\ resp'[r].status = HTTP_204)
        => /\ \E c \in categories : c.id = req[r].id
           /\ categories' = {c \in categories : c.id # req[r].id}
           /\ \A t \in tasks :
                 IF t.category_id = req[r].id
                 THEN [t EXCEPT !.category_id = None] \in tasks'
                 ELSE t \in tasks'
           /\ \A t \in tasks' : \E s \in tasks : s.id = t.id
           /\ \A t, s \in tasks' : t.id = s.id => t = s
           /\ UNCHANGED users
      ]_vars

\* Category 2 was deleted with 204 while task 1 referenced it: the task is
\* still stored, without a category and otherwise as it was created.
C13_Witness ==
    \E r \in Reqs :
        /\ pc[r] = "done"
        /\ req[r].op = "delete_category"
        /\ req[r].id = 2
        /\ resp[r].status = HTTP_204
        /\ ~\E c \in categories : c.id = 2
        /\ [TaskRow(1, 1, TaskCreate("Buy milk", 2), 0) EXCEPT !.category_id = None] \in tasks

\* C14: in every reachable state each task's category reference is either
\* absent or names an existing category that belongs to the task's owner or
\* is global (user_id NULL).
C14_CategoryRefsResolve ==
    \A t \in tasks :
        \/ t.category_id = None
        \/ \E c \in categories : c.id = t.category_id /\ c.user_id \in {t.user_id, None}

\* A create_task passed its category check, the category was deleted by the
\* other request before the INSERT, and the INSERT was refused; meanwhile a
\* task of the other user references the global category and task 1 has
\* moved to category 3.
C14_Witness ==
    \E r \in Reqs :
        /\ pc[r] = "done"
        /\ req[r].op = "create_task"
        /\ req[r].arg.category_id = 2
        /\ uid[r] = 1
        /\ resp[r].status = HTTP_500
        /\ ~\E c \in categories : c.id = 2
        /\ \E t \in tasks : t.id = 1 /\ t.category_id = 3
        /\ \E t \in tasks : t.id # 1 /\ t.category_id = GlobalCat

\* ------------------------------------------------------------- SpecCreate
\* What create_task and update_task make of a category reference and of the
\* body's constraints: one request at a time on the rows SpecOwn starts
\* from. The references: an own category, the global one, the other user's,
\* an id no category has, a text that is not a UUID, the empty string.
CategoryRefs == {2, GlobalCat, 5, MaxCats, BadId, EmptyId}

CreateArgs ==
    {TaskCreate("Buy milk", c) : c \in CategoryRefs \cup {None}}
    \cup {[TaskCreate("Buy milk", c) EXCEPT !.completion_percentage = p] :
             c \in {None, MaxCats}, p \in {-1, 100, 101}}
    \cup {TaskCreate("", None)}

CreateTokens ==
    SessionTokens \cup {[user_id |-> 1, sig |-> FALSE, exp |-> TokenLifetime]}

NextCreate ==
    \E r \in {"r1"} :
        \/ start_create_task(r, CreateTokens, CreateArgs)
        \/ start_update_task(r, SessionTokens, {1}, {[category_id |-> c] : c \in CategoryRefs})
        \/ get_current_user_id(r)
        \/ create_task_validate(r)
        \/ create_task_category(r)
        \/ create_task_insert(r)
        \/ create_task_commit(r)
        \/ create_task_readback(r)
        \/ update_task_check(r)
        \/ update_task_category(r)
        \/ update_task_update(r)
        \/ update_task_commit(r)
        \/ update_task_readback(r)

SpecCreate == InitOwn /\ [][NextCreate]_vars

\* The category the reference names for this caller, if there is one.
Resolves(category_id, user_id) ==
    \E c \in categories : c.id = category_id /\ c.user_id \in {user_id, None}

OutcomeKind(o) == IF o.next = "done" THEN o.status ELSE 0

\* The same, read from the step the request r takes.
StepKind(r) == IF pc'[r] = "done" THEN resp'[r].status ELSE 0

\* C16: for every category reference value (own, global, another user's,
\* well-formed but absent, not a UUID, the empty string) update_task
\* supplying that value passes or fails its category check with the same
\* outcome kind as create_task by the same caller supplying the same value,
\* and create_task with the same kind as update_task.
C16_UpdateValidatesAsCreate ==
    [][\A r \in Reqs :
        /\ (pc[r] = "update_task_category" /\ pc'[r] # pc[r])
           => StepKind(r) = OutcomeKind(create_task_category_outcome(
                                req[r].body.category_id, uid[r], categories))
        /\ (pc[r] = "create_task" /\ pc'[r] # pc[r] /\ req[r].arg.category_id # None)
           => StepKind(r) = OutcomeKind(update_task_category_outcome(
                                req[r].arg.category_id, uid[r], categories))
      ]_vars

\* The body breaks a constraint of TaskCreate.
OutOfRange(a) == a.title = "" \/ a.completion_percentage < 0 \/ a.completion_percentage > 100

RoundTags == {<<>>, <<"a">>, <<"b", "a">>, <<"a", "a">>}

RoundImages == {<<>>, <<"2.png", "1.png">>}

RoundCreates ==
    {[TaskCreate("Buy milk", None) EXCEPT !.tags = l, !.images = m] :
        l \in RoundTags, m \in RoundImages}

RoundBodies ==
    {[tags |-> l] : l \in RoundTags} \cup {[images |-> m] : m \in RoundImages}
    \cup {[status |-> "Tamamlandi"]}

NextRound ==
    \E r \in {"r1"} :
        \/ start_create_task(r, {create_token(1, 0)}, RoundCreates)
        \/ start_update_task(r, {create_token(1, 0)}, TaskIds, RoundBodies)
        \/ start_get_task(r, SessionTokens, TaskIds)
        \/ get_current_user_id(r)
        \/ create_task_validate(r)
        \/ create_task_category(r)
        \/ create_task_insert(r)
        \/ create_task_commit(r)
        \/ create_task_readback(r)
        \/ update_task_check(r)
        \/ update_task_update(r)
        \/ update_task_commit(r)
        \/ update_task_readback(r)
        \/ get_task(r)

SpecRound == InitOwn /\ [][NextRound]_vars

\* The elements a stored tags or images value holds, in order, read off its
\* JSON text: the strings at the even positions.
StoredList(raw) == [k \in 1..((Len(raw.text) - 1) \div 2) |-> raw.text[2 * k].s]

\* C18: the tags and images supplied to create_task or update_task come back
\* from the owner's get_task with the same elements in the same order.
\* Step by step: the INSERT of create_task stores a text that holds exactly
\* the supplied lists; the UPDATE of update_task stores such a text for a
\* supplied list and leaves the stored text alone for a list not supplied;
\* the commit stores the row as written; and get_task answers the owner with
\* exactly the lists the stored row holds.
C18_ListsRoundTrip ==
    [][\A r \in Reqs :
        /\ (pc[r] = "create_task_insert" /\ pc'[r] = "create_task_commit")
           => /\ StoredList(LastWrite(r).row.tags) = req[r].arg.tags
              /\ StoredList(LastWrite(r).row.images) = req[r].arg.images
        /\ (pc[r] = "update_task_update" /\ pc'[r] = "update_task_commit"
                /\ Len(tx'[r]) > Len(tx[r]))
           => \A f \in {"tags", "images"} :
                 IF f \in DOMAIN req[r].body
                 THEN StoredList(LastWrite(r).row[f]) = req[r].body[f]
                 ELSE \E old \in tasks : old.id = req[r].id /\ LastWrite(r).row[f] = old[f]
        /\ (pc[r] \in {"create_task_commit", "update_task_commit"} /\ pc'[r] # pc[r])
           => \A i \in 1..Len(tx[r]) : tx[r][i].row \in tasks'
        /\ (pc[r] = "get_task" /\ pc'[r] = "done" /\ resp'[r].status = HTTP_200)
           => \E t \in tasks :
                 /\ t.id = req[r].id /\ t.user_id = uid[r]
                 /\ resp'[r].body.tags = StoredList(t.tags)
                 /\ resp'[r].body.images = StoredList(t.images)
      ]_vars

\* Task 1 was given the tags b, a by an update, and the owner's get_task
\* returned b, a; a task created with the tags a, a and two images is stored.
C18_Witness ==
    /\ pc["r1"] = "done"
    /\ req["r1"].op = "get_task"
    /\ req["r1"].id = 1
    /\ resp["r1"].status = HTTP_200
    /\ resp["r1"].body.tags = <<"b", "a">>
    /\ \E t \in tasks :
          /\ t.id # 1
          /\ row_to_task_response(t, categories).tags = <<"a", "a">>
          /\ row_to_task_response(t, categories).images = <<"2.png", "1.png">>

\* ---------------------------------------------------------------- SpecNew
\* A task created from a title alone and later updated in its status alone,
\* one request at a time, with the clock running.
NextNew ==
    \/ Tick
    \/ \E r \in {"r1"} :
        \/ start_create_task(r, {create_token(1, 0)}, {TaskCreate("Buy bread", None)})
        \/ start_update_task(r, {create_token(1, 0)}, TaskIds, {[status |-> "Tamamlandi"]})
        \/ get_current_user_id(r)
        \/ create_task_validate(r)
        \/ create_task_category(r)
        \/ create_task_insert(r)
        \/ create_task_commit(r)
        \/ create_task_readback(r)
        \/ update_task_check(r)
        \/ update_task_update(r)
        \/ update_task_commit(r)
        \/ update_task_readback(r)

SpecNew == InitOwn /\ [][NextNew]_vars

\* What create_task must show for a body that held a title and nothing else.
FreshFromTitle(body, title) ==
    /\ body.title = title
    /\ body.priority = "Orta"
    /\ body.status = "Yapilacak"
    /\ body.completion_percentage = 0
    /\ body.tags = <<>>
    /\ body.images = <<>>
    /\ body.category_id = None
    /\ body.created_at = body.updated_at

\* C19: a task created with only a title is stored and returned with
\* priority "Orta", status "Yapilacak" (the model's spelling of "Yapılacak"),
\* completion_percentage 0, empty tags and images, no category and
\* created_at = updated_at = the time of the request; an update of status
\* alone, answered 200, returns and stores the new status with the title and
\* created_at unchanged and updated_at the time of the update, which is
\* later than created_at whenever the clock has moved since the creation.
C19_DefaultsThenStatus ==
    [][\A r \in Reqs :
        /\ (/\ pc[r] = "create_task_readback" /\ pc'[r] = "done"
            /\ req[r].arg = TaskCreate(req[r].arg.title, None))
           => /\ resp'[r].status = HTTP_201
              /\ FreshFromTitle(resp'[r].body, req[r].arg.title)
              /\ resp'[r].body.created_at <= now
              /\ \E t \in tasks :
                    /\ t.id = resp'[r].body.id
                    /\ t.user_id = uid[r]
                    /\ FreshFromTitle(TaskView(t), req[r].arg.title)
        /\ (/\ pc[r] = "update_task_commit" /\ pc'[r] = "update_task_readback"
            /\ DOMAIN req[r].body = {"status"})
           => \E old \in tasks, new \in tasks' :
                 /\ old.id = req[r].id /\ new.id = req[r].id
                 /\ new.status = req[r].body.status
                 /\ new.title = old.title
                 /\ new.created_at = old.created_at
                 /\ new.updated_at >= new.created_at
                 /\ new.updated_at <= now
        /\ (/\ pc[r] = "update_task_update" /\ pc'[r] = "update_task_commit"
            /\ Len(tx'[r]) > Len(tx[r]))
           => /\ LastWrite(r).row.updated_at = now
              /\ \A old \in tasks :
                    (old.id = req[r].id /\ old.created_at < now)
                    => LastWrite(r).row.updated_at > LastWrite(r).row.created_at
        /\ (/\ pc[r] = "update_task_readback" /\ pc'[r] = "done"
            /\ DOMAIN req[r].body = {"status"} /\ resp'[r].status = HTTP_200)
           => \E t \in tasks :
                 /\ t.id = req[r].id
                 /\ resp'[r].body.status = req[r].body.status
                 /\ resp'[r].body.title = t.title
                 /\ resp'[r].body.updated_at = t.updated_at
                 /\ resp'[r].body.created_at = t.created_at
      ]_vars

\* A task made from the title "Buy bread" alone after the first tick has had
\* its status set by a later update: the answer shows the new status, the
\* old title and default priority, and an updated_at after its created_at.
C19_Witness ==
    /\ pc["r1"] = "done"
    /\ req["r1"].op = "update_task"
    /\ resp["r1"].status = HTTP_200
    /\ resp["r1"].body.title = "Buy bread"
    /\ resp["r1"].body.status = "Tamamlandi"
    /\ resp["r1"].body.priority = "Orta"
    /\ resp["r1"].body.created_at > 0
    /\ resp["r1"].body.updated_at > resp["r1"].body.created_at

\* --------------------------------------------------------------- SpecList
\* Tasks of two users created at different times, and the list each of them
\* gets under every combination of filters, one request at a time.
ListCreates ==
    {TaskCreate("Buy bread", None),
     [TaskCreate("Call mom", GlobalCat) EXCEPT !.priority = "Yuksek", !.status = "Tamamlandi"]}

NextList ==
    \/ Tick
    \/ \E r \in {"r1"} :
        \/ start_create_task(r, SessionTokens, ListCreates)
        \/ start_get_tasks(r, SessionTokens, {None, EmptyId, BadId, GlobalCat, 2},
                           {"", "Yuksek"}, {"", "Tamamlandi"})
        \/ get_current_user_id(r)
        \/ create_task_validate(r)
        \/ create_task_category(r)
        \/ create_task_insert(r)
        \/ create_task_commit(r)
        \/ create_task_readback(r)
        \/ get_tasks(r)

SpecList == InitOwn /\ [][NextList]_vars

\* The task passes the filters the request supplies; a category filter that
\* is not a UUID matches no task.
Matches(t, q) ==
    /\ q.category_id \notin {None, EmptyId} => t.category_id = q.category_id
    /\ q.priority # "" => t.priority = q.priority
    /\ q.status # "" => t.status = q.status

\* C20: get_tasks answers 200 with exactly the caller's tasks that match
\* every supplied filter (category, priority, status; a filter not supplied
\* matches all), each once, in descending order of created_at, and with no
\* task of another user.
C20_ListOwnMatching ==
    [][\A r \in Reqs :
        (pc[r] = "get_tasks" /\ pc'[r] # pc[r])
        => /\ pc'[r] = "done"
           /\ resp'[r].status = HTTP_200
           /\ LET list == resp'[r].body IN
              /\ {list[i].id : i \in DOMAIN list}
                    = {t.id : t \in {x \in tasks : x.user_id = uid[r] /\ Matches(x, req[r])}}
              /\ \A i, j \in DOMAIN list : i < j =>
                    /\ list[i].id # list[j].id
                    /\ list[i].created_at >= list[j].created_at
              /\ \A i \in DOMAIN list :
                    /\ list[i].user_id = uid[r]
                    /\ \E t \in tasks : list[i] = row_to_task_response(t, categories)
      ]_vars

\* C21: get_tasks with a category filter that is not a well-formed id
\* answers 200 with the empty list, whatever the priority and status
\* filters and whatever tasks the caller owns.
C21_MalformedFilterEmptyList ==
    [][\A r \in Reqs :
        (pc[r] = "get_tasks" /\ pc'[r] # pc[r] /\ req[r].category_id = BadId)
        => /\ pc'[r] = "done"
           /\ resp'[r].status = HTTP_200
           /\ resp'[r].body = <<>>
           /\ UNCHANGED <<users, categories, tasks>>
      ]_vars

\* The first user, who owns a task, listed with a category filter that is
\* not a UUID and a priority filter on top, and got 200 with no task.
C21_Witness ==
    /\ pc["r1"] = "done"
    /\ req["r1"].op = "get_tasks"
    /\ req["r1"].category_id = BadId
    /\ req["r1"].priority = "Yuksek"
    /\ uid["r1"] = 1
    /\ \E t \in tasks : t.user_id = 1
    /\ resp["r1"].status = HTTP_200
    /\ resp["r1"].body = <<>>

\* ---------------------------------------------------------------------------
\* The connection pool under concurrent requests (get_db_connection).
\* get_db_connection is a synchronous generator dependency: each request
\* runs it in a worker thread, once (get_current_user_id and the handler share
\* its connection), and several requests run it at the same time.
\* SimpleConnectionPool takes no lock, so the steps of _getconn interleave.
\* ---------------------------------------------------------------------------

InFlight ==
    connection_pool.connecting + connection_pool.holding + connection_pool.failing

\* _getconn, an idle connection exists: self._used[key] = conn = self._pool.pop()
getconn_pop ==
    /\ InFlight < MaxThreads
    /\ connection_pool.idle > 0
    /\ connection_pool' = [connection_pool EXCEPT !.idle = @ - 1, !.used = @ + 1,
                                                  !.holding = @ + 1]
    /\ UNCHANGED <<now, db, pc, req, uid, local, tx, resp, effect>>

\* _getconn, no idle connection: the test len(self._used) == self.maxconn is
\* passed and the thread goes on to open a connection.
getconn_check ==
    /\ InFlight < MaxThreads
    /\ connection_pool.idle = 0
    /\ connection_pool.used # maxconn
    /\ connection_pool' = [connection_pool EXCEPT !.connecting = @ + 1]
    /\ UNCHANGED <<now, db, pc, req, uid, local, tx, resp, effect>>

\* _getconn, no idle connection and the test fails: PoolError, which
\* get_db_connection turns into 503; conn stays None.
getconn_exhausted ==
    /\ InFlight < MaxThreads
    /\ connection_pool.idle = 0
    /\ connection_pool.used = maxconn
    /\ connection_pool' = [connection_pool EXCEPT !.failing = @ + 1]
    /\ UNCHANGED <<now, db, pc, req, uid, local, tx, resp, effect>>

\* _connect: the connection is opened and registered in _used, or
\* psycopg2.connect fails.
pool_connect ==
    /\ connection_pool.connecting > 0
    /\ \E opened \in BOOLEAN :
        connection_pool' =
            IF opened
            THEN [connection_pool EXCEPT !.connecting = @ - 1, !.used = @ + 1,
                                         !.holding = @ + 1]
            ELSE [connection_pool EXCEPT !.connecting = @ - 1, !.failing = @ + 1]
    /\ UNCHANGED <<now, db, pc, req, uid, local, tx, resp, effect>>

\* The request ends: the finally clause of get_db_connection runs putconn
\* whether the handler returned, raised HTTPException or raised anything else.
\* _putconn keeps the connection while fewer than minconn are idle.
putconn ==
    /\ connection_pool.holding > 0
    /\ \E ending \in {"returned", "HTTPException", "Exception"} :
        connection_pool' =
            [connection_pool EXCEPT
                !.holding = @ - 1, !.used = @ - 1,
                !.idle = IF @ < minconn THEN @ + 1 ELSE @]
    /\ UNCHANGED <<now, db, pc, req, uid, local, tx, resp, effect>>

\* A request that got no connection answers 503; finally sees conn = None.
getconn_failed ==
    /\ connection_pool.failing > 0
    /\ connection_pool' = [connection_pool EXCEPT !.failing = @ - 1]
    /\ UNCHANGED <<now, db, pc, req, uid, local, tx, resp, effect>>

NextPool ==
    \/ getconn_pop
    \/ getconn_check
    \/ getconn_exhausted
    \/ pool_connect
    \/ putconn
    \/ getconn_failed

SpecPool == Init /\ [][NextPool]_vars

\* C22: the connections checked out of the pool never exceed maxconn, and
\* none is checked out when no request is in flight.
C22_PoolBounded ==
    /\ connection_pool.used <= maxconn
    /\ InFlight = 0 => connection_pool.used = 0

\* Each request in flight that got a connection holds exactly one, and every
\* one is handed back when its request ends.
C22_OnePerRequest == connection_pool.used = connection_pool.holding

\* ---------------------------------------------------------------------------
\* Storage faults in the task write handlers. Any cur.execute or conn.commit
\* of create_task and update_task can raise psycopg2.Error (connection lost,
\* statement cancelled); the handler's `except psycopg2.Error` clause runs
\* conn.rollback() and raises the 500. The rollback undoes the open
\* transaction only: what conn.commit() made durable stays.
\* ---------------------------------------------------------------------------
task_db_error(r) ==
    /\ pc[r] \in {"create_task", "create_task_insert", "create_task_commit",
                  "create_task_readback", "update_task_check", "update_task_category",
                  "update_task_update", "update_task_commit", "update_task_readback"}
    /\ Raise(r, HTTP_500, "Veritabani hatasi")

NextFault ==
    \/ Tick
    \/ \E r \in {"r1"} :
        \/ start_create_task(r, {create_token(1, 0)},
                             {TaskCreate("Buy milk", c) : c \in {None, 2, MaxCats}})
        \/ start_update_task(r, {create_token(1, 0)}, {1, MaxTasks},
                             {EmptyBody, [title |-> "Buy bread"], [category_id |-> 3]})
        \/ get_current_user_id(r)
        \/ create_task_validate(r)
        \/ create_task_category(r)
        \/ create_task_insert(r)
        \/ create_task_commit(r)
        \/ create_task_readback(r)
        \/ update_task_check(r)
        \/ update_task_category(r)
        \/ update_task_update(r)
        \/ update_task_commit(r)
        \/ update_task_readback(r)
        \/ task_db_error(r)

SpecFault == InitOwn /\ [][NextFault]_vars

\* C23: a write request that ends with an error response has changed no
\* committed row of users, categories or tasks.
C23_ErrorLeavesStoreUnchanged ==
    \A r \in Reqs :
        (pc[r] = "done" /\ resp[r].status >= HTTP_400) => effect[r] = {}

\* Every failure path runs the rollback: no request ends with writes still
\* pending on its connection.
C23_RolledBack == \A r \in Reqs : pc[r] = "done" => tx[r] = <<>>

\* ---------------------------------------------------------------------------
\* ai_chat: the caller's tasks are read, the provider is asked, and whatever
\* goes wrong inside the try block is turned into a reply.
\* A JSON value is a record with its kind; a text is a sequence of words,
\* with the numbers formatted into it kept apart.
\* ---------------------------------------------------------------------------
Str(text) == [kind |-> "str", text |-> text]

Format(text, numbers) == [kind |-> "str", text |-> text, numbers |-> numbers]

\* `chat_message: ChatMessage` in the route's signature: message: str
ChatMessageValid(body) == "message" \in DOMAIN body /\ body.message.kind = "str"

\* any(word in user_message_lower for word in [...])
Mentions(message, words) == \E i \in DOMAIN message.text : message.text[i] \in words

\* The reply built from the caller's tasks when the provider answers with an
\* error status that is not a rate limit.
fallback_response(message, tasks_summary) ==
    LET total_tasks == Cardinality(tasks_summary)
        completed   == Cardinality({t \in tasks_summary : t.status = "Tamamlandi"})
        in_progress == Cardinality({t \in tasks_summary : t.status = "Devam Ediyor"})
        todo        == Cardinality({t \in tasks_summary : t.status = "Yapilacak"})
    IN  IF Mentions(message, {"merhaba", "selam", "hey", "hi", "hello"})
        THEN Format(<<"Merhaba">>, <<total_tasks, completed, in_progress, todo>>)
        ELSE IF Mentions(message, {"oncelik", "onceliklendir", "hangi", "hangisi"})
        THEN IF \E t \in tasks_summary : t.priority \in {"Yuksek", "Acil"}
             THEN Str(<<"Oncelikli gorevleriniz">>)
             ELSE Str(<<"Yuksek oncelikli goreviniz gorunmuyor">>)
        ELSE IF Mentions(message, {"tamamlan", "bitir", "yapildi"})
        THEN Format(<<"Harika">>, <<completed, todo>>)
        ELSE IF Mentions(message, {"yardim", "nasil", "ne yapmali"})
        THEN Format(<<"Size yardimci olabilirim">>, <<total_tasks>>)
        ELSE IF total_tasks = 0
        THEN Str(<<"Henuz goreviniz yok">>)
        ELSE Format(<<"Gorevlerinize baktigimda">>, <<total_tasks, completed, in_progress>>)

\* What the try block of ai_chat does: the value it returns, or the class of
\* the exception it raises. read_ok: the SELECT of the tasks succeeds; key:
\* OPENROUTER_API_KEY is set; reply: what requests.post gives.
ai_chat_try(message, user_id, taskRows, read_ok, key, reply) ==
    LET tasks_summary == {t \in taskRows : t.user_id = user_id} IN
    IF ~read_ok
    THEN {[raised |-> "Exception"]}
    ELSE IF ~key
    THEN {[raised |-> "", response |-> Str(<<"AI servisi yapilandirilmamis">>)]}
    ELSE IF reply.kind \in {"Timeout", "ConnectionError"}
    THEN {[raised |-> "RequestException"]}
    ELSE IF reply.status_code = HTTP_200
    THEN IF "invalid" \in DOMAIN reply.json
         \* response.json(): JSONDecodeError, a RequestException in current
         \* versions of requests and a plain ValueError in older ones
         THEN {[raised |-> "RequestException"], [raised |-> "Exception"]}
         ELSE IF "choices" \notin DOMAIN reply.json
         THEN {[raised |-> "Exception"]}
         \* chat_response_text[:50], then ChatResponse(response=...)
         ELSE IF reply.json.choices.kind # "str"
         THEN {[raised |-> "Exception"]}
         ELSE {[raised |-> "", response |-> reply.json.choices]}
    ELSE IF reply.rate_limit_text \/ reply.status_code = 429
    THEN {[raised |-> "", response |-> Str(<<"AI servisi su anda cok yogun">>)]}
    ELSE {[raised |-> "", response |-> fallback_response(message, tasks_summary)]}

\* Variant: the try block with its `except RequestException` clause only.
ai_chat_outcomes_request_errors_only(message, user_id, taskRows, read_ok, key, reply) ==
    {IF t.raised = ""
     THEN Returns(HTTP_200, [response |-> t.response])
     ELSE IF t.raised = "RequestException"
     THEN Returns(HTTP_200, [response |-> Str(<<"AI servisine baglanilamadi">>)])
     ELSE Fails(HTTP_500, "Internal Server Error") :
        t \in ai_chat_try(message, user_id, taskRows, read_ok, key, reply)}

\* ai_chat: the try block and its two except clauses, both of which return
ai_chat_outcomes(message, user_id, taskRows, read_ok, key, reply) ==
    {IF t.raised = ""
     THEN Returns(HTTP_200, [response |-> t.response])
     ELSE IF t.raised = "RequestException"
     THEN Returns(HTTP_200, [response |-> Str(<<"AI servisine baglanilamadi">>)])
     ELSE Returns(HTTP_200, [response |-> Str(<<"Bir hata olustu">>)]) :
        t \in ai_chat_try(message, user_id, taskRows, read_ok, key, reply)}

\* FastAPI validates the body after the dependencies and before the handler.
ai_chat_validate(r) ==
    /\ pc[r] = "ai_chat_validate"
    /\ IF ChatMessageValid(req[r].body)
       THEN Goto(r, "ai_chat", NoLocal)
       ELSE Raise(r, HTTP_422, "value is not a valid ChatMessage")

\* What requests.post can give: a timeout, a refused connection, or a
\* response with its status, whether its text speaks of a rate limit, and
\* its body (not JSON, JSON without the answer, JSON with the answer as a
\* string, as null, as a list of parts).
ProviderReplies ==
    {[kind |-> "Timeout"], [kind |-> "ConnectionError"]}
    \cup {[kind |-> "response", status_code |-> HTTP_200, json |-> j, rate_limit_text |-> FALSE] :
            j \in {[invalid |-> TRUE], [error |-> "x"],
                   [choices |-> Str(<<"Tamam">>)], [choices |-> Str(<<>>)],
                   [choices |-> [kind |-> "null"]], [choices |-> [kind |-> "list"]]}}
    \cup {[kind |-> "response", status_code |-> c, json |-> [invalid |-> TRUE], rate_limit_text |-> l] :
            c \in {HTTP_401, 429, HTTP_500}, l \in BOOLEAN}

ai_chat(r) ==
    /\ pc[r] = "ai_chat"
    /\ \E read_ok \in BOOLEAN, key \in BOOLEAN, reply \in ProviderReplies :
        \E o \in ai_chat_outcomes(req[r].body.message, uid[r], tasks, read_ok, key, reply) :
            Step(r, o)

start_ai_chat(r, tokens, bodies) ==
    \E t \in tokens, b \in bodies :
        NewRequest(r, [body |-> b, op |-> "ai_chat", token |-> t], "auth")

ChatBodies ==
    {[message |-> Str(m)] : m \in {<<"merhaba">>, <<"hangi", "gorev">>, <<"bitir">>,
                                   <<"yardim">>, <<"ne", "var">>, <<>>}}
    \cup {[message |-> [kind |-> "null"]], EmptyBody}

NextChat ==
    \/ Tick
    \/ \E r \in {"r1"} :
        \/ start_ai_chat(r, CreateTokens, ChatBodies)
        \/ get_current_user_id(r)
        \/ ai_chat_validate(r)
        \/ ai_chat(r)

SpecChat == InitOwn /\ [][NextChat]_vars

\* C24 as stated: every ai_chat request of an authenticated caller ends with
\* 200 and a message.
C24_ChatAlwaysReplies ==
    [][\A r \in Reqs :
        (req[r].op = "ai_chat" /\ uid[r] # None /\ pc[r] # "done" /\ pc'[r] = "done")
            => (resp'[r].status = HTTP_200 /\ resp'[r].body.response.kind = "str")]_vars

\* C24: every ai_chat request of an authenticated caller whose body is a
\* ChatMessage ends with 200 and a message, whatever the read of the tasks,
\* the API key and the provider do.
C24_ValidChatAlwaysReplies ==
    [][\A r \in Reqs :
        (/\ req[r].op = "ai_chat" /\ uid[r] # None /\ ChatMessageValid(req[r].body)
         /\ pc[r] # "done" /\ pc'[r] = "done")
            => (resp'[r].status = HTTP_200 /\ resp'[r].body.response.kind = "str")]_vars

\* The provider answered with null where the text should be, and the caller
\* got a reply all the same.
C24_Witness ==
    \E r \in Reqs :
        /\ req[r].op = "ai_chat" /\ pc[r] = "done"
        /\ resp[r].status = HTTP_200
        /\ resp[r].body.response = Str(<<"Bir hata olustu">>)

\* ---------------------------------------------------------------------------
\* Category names under two requests at once: the first user creates
\* categories and renames two of her own, the second user creates one; the
\* names are a new one, one she already has, and a category's own name.
\* ---------------------------------------------------------------------------
NextName ==
    \E r \in Reqs :
        \/ start_create_category(r, {create_token(1, 0)},
                                 {[name |-> n, color |-> "#000000", icon |-> "book"] :
                                    n \in {"Okul", "Is"}})
        \/ start_create_category(r, {create_token(2, 0)},
                                 {[name |-> "Okul", color |-> "#000000", icon |-> "book"]})
        \/ start_update_category(r, {create_token(1, 0)}, {2, 3},
                                 {[name |-> "Okul"], [name |-> "Genel"]})
        \/ get_current_user_id(r)
        \/ create_category_insert(r)
        \/ create_category_commit(r)
        \/ update_category_check(r)
        \/ update_category_name(r)
        \/ update_category_update(r)
        \/ update_category_commit(r)

SpecName == InitOwn /\ [][NextName]_vars

NamesUnique ==
    \A c1, c2 \in categories :
        (c1.user_id = c2.user_id /\ c1.name = c2.name) => c1.id = c2.id

\* The request is at a statement that writes a name which another committed
\* category of its caller has.
NameCollides(r) ==
    \/ /\ pc[r] = "create_category_insert"
       /\ CategoryNameTaken(None, uid[r], req[r].arg.name)
    \/ /\ pc[r] \in {"update_category_name", "update_category_update"}
       /\ "name" \in DOMAIN req[r].body
       /\ \E c \in categories :
            c.user_id = uid[r] /\ c.name = req[r].body.name /\ c.id # req[r].id

\* The request renames a category of its caller to the name it has.
NameKept(r) ==
    /\ pc[r] \in {"update_category_name", "update_category_update"}
    /\ "name" \in DOMAIN req[r].body
    /\ \E c \in categories :
         c.id = req[r].id /\ c.user_id = uid[r] /\ c.name = req[r].body.name

C25_WitnessKept ==
    \E r \in Reqs :
        /\ pc[r] = "done" /\ req[r].op = "update_category"
        /\ req[r].id = 2 /\ req[r].body.name = "Genel" /\ resp[r].status = HTTP_200

\* ---------------------------------------------------------------------------
\* parse_json_list_field on whatever the tags and images columns may hold:
\* a list, the text of a list, the text of a JSON value that is no list, a
\* text that is no JSON, NULL, a value of another type. The task of the first
\* user starts with any two of these and is read with get_task.
\* ---------------------------------------------------------------------------
MaxLen == 2

\* The lists of strings of length up to MaxLen
StoredLists ==
    UNION {[1..n -> {"ev", "is"}] : n \in 0..MaxLen}

StoredValues ==
    {[kind |-> "list", items |-> l] : l \in StoredLists}
    \cup {json_dumps(l) : l \in StoredLists}
    \cup {[kind |-> "str", text |-> t] :
            t \in {<<JsonToken("str", "ev")>>,
                   <<JsonToken("{", ""), JsonToken("}", "")>>,
                   <<>>,
                   <<JsonToken("[", ""), JsonToken("str", "ev")>>,
                   <<JsonToken("[", ""), JsonToken(",", ""), JsonToken("]", "")>>,
                   <<JsonToken("[", ""), JsonToken("str", "ev"), JsonToken("str", "is"),
                     JsonToken("]", "")>>}}
    \cup {[kind |-> "null"], [kind |-> "int"], [kind |-> "dict"]}

InitStored ==
    /\ now = 0
    /\ users = SeedUsers
    /\ categories = SeedCategories
    /\ \E v, w \in StoredValues :
        tasks = {[TaskRow(1, 1, TaskCreate("Buy milk", 2), 0) EXCEPT !.tags = v, !.images = w]}
    /\ ever = [users |-> {1, 2}, categories |-> 1..7, tasks |-> {1}]
    /\ pc = [r \in Reqs |-> "idle"]
    /\ req = [r \in Reqs |-> NoReq]
    /\ uid = [r \in Reqs |-> None]
    /\ local = [r \in Reqs |-> NoLocal]
    /\ tx = [r \in Reqs |-> <<>>]
    /\ resp = [r \in Reqs |-> NoResp]
    /\ effect = [r \in Reqs |-> {}]
    /\ connection_pool = PoolAtStart

NextStored ==
    \E r \in {"r1"} :
        \/ start_get_task(r, {create_token(1, 0)}, {1})
        \/ get_current_user_id(r)
        \/ get_task(r)

SpecStored == InitStored /\ [][NextStored]_vars

\* The list a stored value is or is the serialization of, else the empty one.
ListOf(v) ==
    IF v.kind = "list" THEN v.items
    ELSE IF \E l \in StoredLists : json_dumps(l) = v
    THEN CHOOSE l \in StoredLists : json_dumps(l) = v
    ELSE <<>>

NullBodies ==
    {[title |-> NoText], [completion_percentage |-> NullInt], [description |-> NoText],
     [title |-> "Buy bread"], [completion_percentage |-> 100],
     [title |-> "Buy bread", completion_percentage |-> NullInt]}

NextNull ==
    \/ Tick
    \/ \E r \in {"r1"} :
        \/ start_create_task(r, {create_token(1, 0)}, {TaskCreate("Pay rent", None)})
        \/ start_update_task(r, {create_token(1, 0)}, {1}, NullBodies)
        \/ start_get_task(r, {create_token(1, 0)}, {1})
        \/ start_get_tasks(r, {create_token(1, 0)}, {None}, {""}, {""})
        \/ get_current_user_id(r)
        \/ create_task_validate(r)
        \/ create_task_category(r)
        \/ create_task_insert(r)
        \/ create_task_commit(r)
        \/ create_task_readback(r)
        \/ update_task_check(r)
        \/ update_task_update(r)
        \/ update_task_commit(r)
        \/ update_task_readback(r)
        \/ get_task(r)
        \/ get_tasks(r)

SpecNull == InitOwn /\ [][NextNull]_vars

\* C27: every stored task has a non-empty title and a completion_percentage
\* that is an integer from 0 to 100.
C27_StoredTasksValid ==
    \A t \in tasks :
        /\ t.title \notin {"", NoText}
        /\ t.completion_percentage \in 0..100

\* Every stored task can be read: get_task and get_tasks end with 200.
\* (Not so once a task is stored with a NULL title or percentage.)
C27_StoredTasksReadable ==
    [][\A r \in Reqs :
        (pc[r] \in {"get_task", "get_tasks"} /\ pc'[r] = "done")
            => resp'[r].status = HTTP_200]_vars

\* ---------------------------------------------------------------------------
\* Two update_task requests of the owner on her one task at the same time,
\* with bodies that share no field, one field, or all their fields.
\* ---------------------------------------------------------------------------
RaceBodies ==
    {[title |-> "Buy bread"], [status |-> "Tamamlandi"],
     [title |-> "Buy eggs", priority |-> "Yuksek"]}

NextRace ==
    \/ Tick
    \/ \E r \in Reqs :
        \/ start_update_task(r, {create_token(1, 0)}, {1}, RaceBodies)
        \/ get_current_user_id(r)
        \/ update_task_check(r)
        \/ update_task_update(r)
        \/ update_task_commit(r)
        \/ update_task_readback(r)

SpecRace == InitOwn /\ [][NextRace]_vars

\* The columns a request body can set, apart from the two lists.
ScalarColumns ==
    {"title", "description", "category_id", "priority", "status",
     "completion_percentage", "due_date"}

\* C28: the commit of an update_task changes, in the row as it was committed
\* just before, the fields its body supplies and updated_at, and no other:
\* what the other request wrote to its own fields stays, and a field both
\* supply holds the value of the later commit.
C28_ConcurrentUpdatesMerge ==
    [][\A r \in Reqs :
        (pc[r] = "update_task_commit" /\ pc'[r] = "update_task_readback")
            => \E old \in tasks, new \in tasks' :
                /\ old.id = req[r].id /\ new.id = req[r].id
                /\ \A f \in ScalarColumns :
                     new[f] = IF f \in DOMAIN req[r].body THEN req[r].body[f] ELSE old[f]
                /\ new.tags = old.tags /\ new.images = old.images
                /\ new.created_at = old.created_at
                /\ new.updated_at >= old.updated_at]_vars

\* Both requests were in flight together (the second one's UPDATE waited for
\* the first one's commit), and the task holds the title of one and the
\* status of the other.
C28_Witness ==
    /\ pc["r1"] = "update_task_readback" /\ pc["r2"] = "update_task_readback"
    /\ req["r1"].body = [title |-> "Buy bread"]
    /\ req["r2"].body = [status |-> "Tamamlandi"]
    /\ \E t \in tasks : t.id = 1 /\ t.title = "Buy bread" /\ t.status = "Tamamlandi"

\* ---------------------------------------------------------------------------
\* A task deleted under a request that has already seen it: delete_task and
\* update_task of the owner on her one task, two requests at once.
\* ---------------------------------------------------------------------------
NextGone ==
    \E r \in Reqs :
        \/ start_delete_task(r, {create_token(1, 0)}, {1})
        \/ start_update_task(r, {create_token(1, 0)}, {1},
                             {[status |-> "Tamamlandi"], [title |-> "Buy bread"]})
        \/ get_current_user_id(r)
        \/ delete_task_check(r)
        \/ delete_task_delete(r)
        \/ delete_task_commit(r)
        \/ update_task_check(r)
        \/ update_task_update(r)
        \/ update_task_commit(r)
        \/ update_task_readback(r)

SpecGone == InitOwn /\ [][NextGone]_vars

\* The request passed its ownership check and its own DELETE or UPDATE has
\* found no row.
FoundGone(r) ==
    \/ /\ pc[r] = "delete_task_delete"
       /\ ~\E t \in tasks : t.id = req[r].id /\ t.user_id = uid[r]
    \/ /\ pc[r] = "update_task_commit"
       /\ local[r].updated_row_id = None

\* C29: a delete_task or update_task whose task was deleted by another
\* request between its ownership check and its own write ends with not
\* found, as it does for a task that never was there.
C29_GoneIsNotFound ==
    [][\A r \in Reqs :
        (FoundGone(r) /\ pc'[r] = "done") => resp'[r].status = HTTP_404]_vars

\* C30: of two registrations of one username that both passed the pre-check,
\* the one whose INSERT INTO users meets the other's committed row ends with
\* the conflict (400), having committed nothing.
C30_RaceLoserConflict ==
    [][\A r \in Reqs :
        (/\ pc[r] = "register_insert_user"
         /\ UsersUnique(req[r].arg, users)
         /\ pc'[r] = "done" /\ local'[r] = NoLocal)
            => (resp'[r].status = HTTP_400 /\ effect'[r] = {})]_vars

\* What does hold for the loser: it commits no user and no category, and no
\* two users share a username.
C30_RaceLeavesOneRow ==
    /\ \A u1, u2 \in users : u1.username = u2.username => u1.id = u2.id
    /\ \A r \in Reqs :
        (pc[r] = "done" /\ resp[r].status # HTTP_201) => effect[r] = {}

====
